---------------------------- MODULE Spec2Model ----------------------------
(***************************************************************************)
(* The proxied request dispatcher of src/services/apiClient.ts             *)
(* (executeProxiedRequest) with the collaborators it reads: the cached     *)
(* current-user record (localStorage), the cached token pool and the       *)
(* user-selected server (sessionStorage), the server registry and the      *)
(* device filter (serverConfig), the remote token lookup and the           *)
(* slot-reservation call (supabase).                                       *)
(*                                                                         *)
(* One dispatch is one run of executeProxiedRequest.  The run is cut at    *)
(* its suspension points (await): the remote token lookup, the server      *)
(* resolution, the slot-reservation call, each fetch.                      *)
(*                                                                         *)
(* Strings that the code searches (error messages, log contexts) are       *)
(* sequences of atoms; s.includes(x) is "some atom of s contains x".       *)
(* Time is counted in hours.                                               *)
(***************************************************************************)
EXTENDS Integers, Sequences, FiniteSets, TLC

VARIABLES
    \* ---- runtime environment (window.location, navigator) ----
    hostname,             \* window.location.hostname, a sequence of dot-separated labels
    port,                 \* window.location.port
    deviceType,           \* what getDeviceOS() answers
    scopedServers,        \* what getAvailableServersForUser(currentUser) answers
    now,                  \* Date.now(), in hours
    \* ---- browser storage ----
    currentUserLS,        \* localStorage 'currentUser' (None or the parsed record)
    selectedProxyServer,  \* sessionStorage 'selectedProxyServer'
    poolItem,             \* sessionStorage 'flow_token_pool' (None or [tokens, timestamp])
    poolTimestampItem,    \* sessionStorage 'flow_token_pool_timestamp'
    \* ---- arguments of the executeProxiedRequest call ----
    logContext,
    serviceType,
    specificToken,
    overrideServerUrl,
    \* ---- locals of executeProxiedRequest ----
    pc,
    currentUser,
    availableTokens,
    availableServers,
    maxRetries,
    lastError,
    triedCombinations,
    slotRequested,
    shuffledServers,
    shuffledTokens,
    serverIdx,
    tokenIdx,
    \* ---- locals of getFreshPersonalTokenFromDB ----
    retryCount,
    dbUser,
    freshToken,
    \* ---- how the call ended ----
    result,               \* the resolved value: [data, successfulToken, successfulServerUrl]
    thrown,               \* the Error the promise was rejected with
    \* ---- what the outside world saw ----
    httpLog,              \* the fetch calls made, in order: [server, token, service]
    slotCalls,            \* the request_generation_slot calls made: [cooldown_seconds, server_url]
    logEntries,           \* the addLogEntry calls made
    lastOutcome,          \* what the last fetch produced (a response or a thrown error)
    serversResolved,      \* TRUE once the server list was computed (lines 240-274)
    consulted,            \* the token sources the call has asked: "local"
                          \* (getPersonalTokenLocal), "db" (getFreshPersonalTokenFromDB),
                          \* "pool" (getTokenPoolTokens)
    dbAnswer,             \* what the last remote lookup query answered
    pinned,               \* the (token, server) of an earlier success this call is pinned to
    \* ---- token pool service (tokenPoolService), called on its own ----
    poolOp,               \* the last operation called and what it returned
    \* ---- flow session (flowService) and the login view ----
    flowStatusItem,       \* localStorage 'flow_login_status'
    flowSessionItem,      \* localStorage 'flow_session_data'
    flowTimestampItem,    \* localStorage 'flow_session_timestamp'
    flowOp,               \* the last flowService operation and what it returned
    savedSinceClear,      \* saveFlowSession completed, clearFlowSession not called since
    loginPc,              \* where handleLoginSuccess is
    isLoggedIn,           \* the view's isLoggedIn state
    \* ---- extractFlowToken ----
    fetchPending,         \* the direct fetch has not settled
    promise,              \* the returned promise: [state, value, resolveCalls]
    resolved,             \* the flag of extractTokenViaIframe
    listening,            \* the message listener is registered
    iframeInBody,         \* the hidden iframe is in document.body
    iframeLoad,           \* the iframe's load: "none", "loading", "timer", "done"
    timeoutTimer,         \* the 15-second timer: "none", "armed", "fired"
    handlerError          \* an event handler of the extraction threw

envVars == <<hostname, port, deviceType, scopedServers, now>>
storageVars == <<currentUserLS, selectedProxyServer, poolItem, poolTimestampItem>>
argVars == <<logContext, serviceType, specificToken, overrideServerUrl>>
loopVars == <<maxRetries, lastError, triedCombinations, slotRequested,
              shuffledServers, shuffledTokens, serverIdx, tokenIdx>>
dbVars == <<retryCount, dbUser, freshToken, dbAnswer>>
endVars == <<result, thrown>>
seenVars == <<httpLog, slotCalls, logEntries, lastOutcome, serversResolved, consulted>>

flowVars == <<flowStatusItem, flowSessionItem, flowTimestampItem, flowOp, savedSinceClear,
              loginPc, isLoggedIn>>
extractVars == <<fetchPending, promise, resolved, listening, iframeInBody, iframeLoad,
                 timeoutTimer, handlerError>>

\* what a dispatch leaves alone: the state of the other services
sideVars == <<pinned, poolOp, flowVars, extractVars>>

\* the state of the dispatcher apart from the clock and the cached pool
dispatchVars == <<hostname, port, deviceType, scopedServers, currentUserLS,
                  selectedProxyServer, argVars, pc, currentUser, availableTokens,
                  availableServers, loopVars, dbVars, endVars, seenVars, pinned>>

vars == <<envVars, storageVars, argVars, pc, currentUser, availableTokens,
          availableServers, loopVars, dbVars, endVars, seenVars, sideVars>>

None == "none"      \* undefined / null / a missing storage key

-----------------------------------------------------------------------------
(* Bounds of the model *)

\* longest list getAvailableServersForUser answers
MaxScoped == 5
\* longest cached token pool
MaxPool == 2

-----------------------------------------------------------------------------
(* Strings *)

\* a contains b as a substring, for the atoms of the model (a = b apart)
SubstringPairs ==
    { <<"Failed to fetch", "fetch">>,
      <<"VEO GENERATE", "GENERATE">>,
      <<"IMAGEN RECIPE", "RECIPE">> }

AtomContains(a, sub) == a = sub \/ <<a, sub>> \in SubstringPairs

\* String.prototype.includes
Includes(s, sub) == \E i \in 1..Len(s) : AtomContains(s[i], sub)

\* String.prototype.toLowerCase, atom by atom
LowerAtom(a) ==
    CASE a = "SAFETY"         -> "safety"
      [] a = "Blocked"        -> "blocked"
      [] a = "BLOCKED"        -> "blocked"
      [] a = "Invalid Prompt" -> "invalid prompt"
      [] a = "ERR_"           -> "err_"
      [] a = "NetworkError"   -> "networkerror"
      [] a = "Failed to fetch" -> "failed to fetch"
      [] OTHER                -> a

ToLowerCase(s) == [i \in 1..Len(s) |-> LowerAtom(s[i])]

\* String.prototype.trim().length > 0, for the token strings of the model
IsBlank(t) == t \in {"", " "}


-----------------------------------------------------------------------------
(* Server registry and device filter (serverConfig) *)

PROXY_SERVER_URLS ==
    << "https://s1.monoklix.com", "https://s2.monoklix.com", "https://s3.monoklix.com",
       "https://s4.monoklix.com", "https://s5.monoklix.com", "https://s6.monoklix.com",
       "https://s7.monoklix.com", "https://s8.monoklix.com", "https://s9.monoklix.com",
       "https://s10.monoklix.com", "https://s11.monoklix.com", "https://s12.monoklix.com" >>

IOS_SERVER_IDS == {"s1", "s2", "s3", "s4", "s6"}

LOCAL_SERVER == "http://localhost:3001"

\* url.replace('https://', '').replace('.monoklix.com', ''): a registry URL
\* gives its id; no other URL of the model gives an id of the registry
ServerIdOf(url) ==
    CASE url = "https://s1.monoklix.com"  -> "s1"
      [] url = "https://s2.monoklix.com"  -> "s2"
      [] url = "https://s3.monoklix.com"  -> "s3"
      [] url = "https://s4.monoklix.com"  -> "s4"
      [] url = "https://s5.monoklix.com"  -> "s5"
      [] url = "https://s6.monoklix.com"  -> "s6"
      [] url = "https://s7.monoklix.com"  -> "s7"
      [] url = "https://s8.monoklix.com"  -> "s8"
      [] url = "https://s9.monoklix.com"  -> "s9"
      [] url = "https://s10.monoklix.com" -> "s10"
      [] url = "https://s11.monoklix.com" -> "s11"
      [] url = "https://s12.monoklix.com" -> "s12"
      [] url = "http://localhost:3001"    -> "http://localhost:3001"
      [] OTHER                            -> url

IsIosServer(url) == ServerIdOf(url) \in IOS_SERVER_IDS
IsNotIosServer(url) == ~IsIosServer(url)

\* getServersForDevice excluding nothing for the devices other than iOS
getServersForDevice_KeepAll(device, allServers) ==
    IF device = "iOS"
    THEN SelectSeq(allServers, IsIosServer)
    ELSE allServers

getServersForDevice(device, allServers) ==
    IF device = "iOS"
    THEN SelectSeq(allServers, IsIosServer)
    ELSE SelectSeq(allServers, IsNotIosServer)

\* Array.prototype.includes
SeqIncludes(s, x) == \E i \in 1..Len(s) : s[i] = x

-----------------------------------------------------------------------------
(* Runtime environment *)

\* hostname.startsWith(p), p given as the labels before each of its dots
StartsWithLabels(h, p) ==
    /\ Len(h) > Len(p)
    /\ \A i \in 1..Len(p) : h[i] = p[i]

IsLocalhost(h) ==
    \/ h = <<"localhost">>
    \/ h = <<"127", "0", "0", "1">>
    \/ h = <<"0", "0", "0", "0">>
    \/ StartsWithLabels(h, <<"192", "168">>)
    \/ StartsWithLabels(h, <<"10">>)
    \/ StartsWithLabels(h, <<"172">>)

IsDevPort(p) == p = "8080" \/ p = "3000"

IsLocalEnv(h, p) == IsLocalhost(ToLowerCase(h)) \/ IsDevPort(p)

-----------------------------------------------------------------------------
(* Cached current user (localStorage 'currentUser') *)

\* no 'currentUser' key in localStorage
NoUserRecord == [present |-> FALSE, id |-> None, username |-> None, personalAuthToken |-> ""]

\* getPersonalTokenLocal: the cached personal token, or None
getPersonalTokenLocal(ls) ==
    IF ls.present /\ ~IsBlank(ls.personalAuthToken)
    THEN ls.personalAuthToken
    ELSE None

\* getCurrentUserInternal: the cached record if it has an id, else null
getCurrentUserInternal(ls) ==
    IF ls.present /\ ls.id # None THEN ls ELSE NoUserRecord

-----------------------------------------------------------------------------
(* Token pool (tokenPoolService) *)

TOKEN_POOL_EXPIRY_HOURS == 24

\* no 'flow_token_pool' key in sessionStorage
NoPool == [present |-> FALSE, tokens |-> <<>>, timestamp |-> 0]
\* no 'flow_token_pool_timestamp' key in sessionStorage
NoStamp == [present |-> FALSE, value |-> 0]

\* PoolExpired with a lifetime of two days
PoolExpired_TwoDays(pool, t) == t - pool.timestamp > 2 * TOKEN_POOL_EXPIRY_HOURS

PoolExpired(pool, t) == t - pool.timestamp > TOKEN_POOL_EXPIRY_HOURS

\* getAllTokens: what it returns
getAllTokens(pool, t) ==
    IF ~pool.present THEN <<>>
    ELSE IF PoolExpired(pool, t) THEN <<>>
    ELSE pool.tokens

\* getAllTokens: an expired pool is cleared (clearTokenPool) as it is read
PoolItemAfterRead(pool, t) ==
    IF pool.present /\ PoolExpired(pool, t) THEN NoPool ELSE pool

PoolTimestampAfterRead(pool, stamp, t) ==
    IF pool.present /\ PoolExpired(pool, t) THEN NoStamp ELSE stamp

-----------------------------------------------------------------------------
(* Request classes *)

\* JavaScript truthiness of an optional string argument or storage value
Truthy(x) == x # None /\ x # ""

IsStatusCheck(ctx) == ctx = <<"VEO STATUS">>

IsGenerationRequest(ctx) == Includes(ctx, "GENERATE") \/ Includes(ctx, "RECIPE")

-----------------------------------------------------------------------------
(* What one fetch can produce *)

NoOutcome == [kind |-> "none", status |-> 0, body |-> "none", message |-> <<>>]

\* fetch (or response.text()) rejected with an error of this message
Thrown(m) == [kind |-> "throw", status |-> 0, body |-> "none", message |-> m]

\* a response of this status whose body is:
\*   "json"    a JSON object with error.message = message (a string)
\*   "nomsg"   a JSON object without error.message and without message
\*   "badmsg"  a JSON object whose error.message is truthy and not a string
\*   "null"    the JSON text null
\*   "text"    not JSON; message is the raw text (its first 100 characters)
Response(st, b, m) == [kind |-> "response", status |-> st, body |-> b, message |-> m]

\* Response.ok
IsOk(st) == st >= 200 /\ st <= 299

NoError == [set |-> FALSE, message |-> <<>>]
Error(m) == [set |-> TRUE, message |-> m]

\* lines 332-338: the parsed body, or the synthesized envelope
ParsedData(o) ==
    IF o.body = "text"
    THEN [kind |-> "envelope", status |-> o.status, body |-> "json",
          message |-> <<"Proxy returned non-JSON (", ToString(o.status), "): ">> \o o.message]
    ELSE [kind |-> "data", status |-> o.status, body |-> o.body, message |-> o.message]

\* line 342: data.error?.message || data.message || `API call failed (${status})`
ErrorMessageOf(data) ==
    IF data.body = "nomsg"
    THEN <<"API call failed (", ToString(data.status), ")">>
    ELSE data.message

\* line 346
IsFatalResponse(st, errorMessage) ==
    \/ st = 400
    \/ Includes(ToLowerCase(errorMessage), "safety")
    \/ Includes(ToLowerCase(errorMessage), "blocked")
    \/ Includes(ToLowerCase(errorMessage), "invalid prompt")

\* line 367
IsHardError(errMsg) ==
    \/ Includes(errMsg, "[400]")
    \/ Includes(ToLowerCase(errMsg), "safety")
    \/ Includes(ToLowerCase(errMsg), "blocked")
    \/ Includes(ToLowerCase(errMsg), "invalid prompt")

\* line 385
IsNetworkError(errMsg) ==
    \/ Includes(errMsg, "Failed to fetch")
    \/ Includes(errMsg, "NetworkError")
    \/ Includes(errMsg, "fetch")
    \/ Includes(errMsg, "ERR_")

\* lines 322-361, the try block of one iteration: what it does with the
\* outcome of the fetch: "return" (success), "continue" (lastError set, next
\* combination) or "throw" (into the catch of line 363)
TryBlock(o) ==
    IF o.kind = "throw" THEN [kind |-> "throw", message |-> o.message, data |-> NoOutcome]
    ELSE LET data == ParsedData(o) IN
         IF IsOk(o.status)
         THEN [kind |-> "return", message |-> <<>>, data |-> data]
         ELSE IF data.body = "null"
         THEN \* data.error on null: TypeError
              [kind |-> "throw", data |-> NoOutcome,
               message |-> <<"Cannot read properties of null (reading 'error')">>]
         ELSE IF data.body = "badmsg"
         THEN \* errorMessage.toLowerCase on a non-string: TypeError
              [kind |-> "throw", data |-> NoOutcome,
               message |-> <<"errorMessage.toLowerCase is not a function">>]
         ELSE IF IsFatalResponse(o.status, ErrorMessageOf(data))
         THEN [kind |-> "throw", data |-> NoOutcome,
               message |-> <<"[" \o ToString(o.status) \o "]", " ">> \o ErrorMessageOf(data)]
         ELSE [kind |-> "continue", message |-> ErrorMessageOf(data), data |-> NoOutcome]

\* lines 294-399, one iteration of the inner loop: how it ends
\*   "success"  return at line 361
\*   "fatal"    re-thrown at line 381
\*   "retry"    lastError set, the loop goes on (brk: through the lines
\*              391-398, where the inner loop is left once the budget is spent)
Iteration(o, serverUrl) ==
    LET t == TryBlock(o) IN
    IF t.kind = "return"
    THEN [kind |-> "success", data |-> t.data, error |-> NoError, brk |-> FALSE]
    ELSE IF t.kind = "continue"
    THEN [kind |-> "retry", data |-> NoOutcome, error |-> Error(t.message), brk |-> FALSE]
    ELSE IF IsHardError(t.message)
    THEN [kind |-> "fatal", data |-> NoOutcome, error |-> Error(t.message), brk |-> FALSE]
    ELSE IF IsNetworkError(t.message)
    THEN [kind |-> "retry", data |-> NoOutcome, brk |-> FALSE,
          error |-> Error(<<"Network error: Cannot connect to ", serverUrl>>)]
    ELSE [kind |-> "retry", data |-> NoOutcome, error |-> Error(t.message), brk |-> TRUE]

-----------------------------------------------------------------------------
(* The inputs of the model *)

PublicHost == <<"app", "monoklix", "com">>

Hostnames ==
    { <<"localhost">>, <<"127", "0", "0", "1">>, <<"0", "0", "0", "0">>,
      <<"192", "168", "1", "5">>, <<"10", "0", "0", "7">>, <<"172", "16", "0", "9">>,
      PublicHost }

Ports == {"", "8080", "3000"}

Devices == {"iOS", "Android"}

LogContexts == { <<"VEO STATUS">>, <<"VEO GENERATE">>, <<"IMAGEN RECIPE">>, <<"IMAGEN UPSCALE">> }

\* the lists getAvailableServersForUser answers: the prefixes of this one,
\* and one with a repeated server
ScopedBase ==
    << "https://s5.monoklix.com", "https://s7.monoklix.com", "https://s1.monoklix.com",
       "https://s8.monoklix.com", "https://s9.monoklix.com", "https://s2.monoklix.com",
       "https://s10.monoklix.com" >>

\* a list that names one server twice
ScopedRepeated ==
    << "https://s5.monoklix.com", "https://s7.monoklix.com", "https://s5.monoklix.com" >>

ScopedLists == { SubSeq(ScopedBase, 1, n) : n \in 0..MaxScoped } \cup {ScopedRepeated}

SelectedServers == {None, "https://s7.monoklix.com", "https://s12.monoklix.com"}

OverrideServers == {None, "https://s3.monoklix.com"}

PersonalToken == "ya29.P"

UserRecords ==
    { NoUserRecord,
      [present |-> TRUE, id |-> "u1", username |-> "alice", personalAuthToken |-> ""],
      [present |-> TRUE, id |-> "u1", username |-> "alice", personalAuthToken |-> PersonalToken] }

\* the cached pools: the prefixes of this list (fetchTokenPool stores no empty pool)
PoolBase == <<"ya29.A", "ya29.B", PersonalToken, "ya29.C">>

PoolAges == {0, TOKEN_POOL_EXPIRY_HOURS, TOKEN_POOL_EXPIRY_HOURS + 1}

StartTime == TOKEN_POOL_EXPIRY_HOURS + 1

SpecificTokens == {None, "ya29.S"}

\* error.message texts of JSON error bodies
MsgPlain == <<"Internal error">>
MsgSafety == <<"Prompt rejected by ", "SAFETY", " filter">>
MsgBlocked == <<"Request ", "Blocked">>
MsgInvalid == <<"Invalid Prompt", ": too long">>

\* raw texts of bodies that are not JSON
TextPlain == <<"<html>502 Bad Gateway</html>">>

\* messages of the errors fetch rejects with
ErrFailedToFetch == <<"Failed to fetch">>
ErrLoadFailed == <<"Load failed">>
ErrBlockedByClient == <<"net::", "ERR_", "BLOCKED", "_BY_CLIENT">>

Outcomes ==
    { Thrown(ErrFailedToFetch), Thrown(ErrLoadFailed), Thrown(ErrBlockedByClient),
      Response(200, "json", MsgPlain), Response(200, "text", TextPlain),
      Response(400, "json", MsgPlain), Response(400, "null", <<>>),
      Response(500, "json", MsgPlain), Response(500, "json", MsgSafety),
      Response(500, "json", MsgBlocked), Response(500, "json", MsgInvalid),
      Response(500, "text", TextPlain) }

\* what a lookup in the users table gives: it throws, finds no personal
\* token, or finds one
UserQueryResults == {"throw", "none", "token"}
\* what the lookup of the latest token_new_active row gives
TokenQueryResults == {"throw", "error", "none", "token"}
\* the token the users table holds, and the latest shared token
DbPersonalToken == PersonalToken
DbSharedToken == "ya29.A"

-----------------------------------------------------------------------------
(* The services at rest *)

\* the call is not pinned to an earlier success
NoPin == [set |-> FALSE, token |-> None, server |-> None]

\* no token pool operation was called
NoPoolOp == [op |-> "none", outcome |-> "none", returned |-> <<>>, cleared |-> FALSE]

\* no flowService operation was called
NoFlowOp == [op |-> "none", returned |-> FALSE]

\* no promise was created
NoPromise == [state |-> "none", value |-> None, resolveCalls |-> 0]

\* nothing of the flow session is stored and handleLoginSuccess is not running
FlowIdle ==
    /\ flowStatusItem = None
    /\ flowSessionItem = None
    /\ flowTimestampItem = NoStamp
    /\ flowOp = NoFlowOp
    /\ savedSinceClear = FALSE
    /\ loginPc = "idle"
    /\ isLoggedIn = FALSE

\* how many extractFlowToken calls are in flight together
MaxCalls == 2

\* the calls of extractFlowToken
Calls == 1..MaxCalls

\* no call of extractFlowToken was made
ExtractIdle ==
    /\ fetchPending = [c \in Calls |-> FALSE]
    /\ promise = [c \in Calls |-> NoPromise]
    /\ resolved = [c \in Calls |-> FALSE]
    /\ listening = [c \in Calls |-> FALSE]
    /\ iframeInBody = [c \in Calls |-> FALSE]
    /\ iframeLoad = [c \in Calls |-> "none"]
    /\ timeoutTimer = [c \in Calls |-> "none"]
    /\ handlerError = [c \in Calls |-> FALSE]

-----------------------------------------------------------------------------
(* Initial states: one executeProxiedRequest call about to start *)

NoResult == [set |-> FALSE, data |-> NoOutcome, successfulToken |-> None,
             successfulServerUrl |-> None]

\* pools that hold the personal token, or one token twice
PoolsWithRepeats == { <<PersonalToken, "ya29.A">>, <<"ya29.B", "ya29.B">> }

CachedPoolTokens == { SubSeq(PoolBase, 1, n) : n \in 1..MaxPool } \cup PoolsWithRepeats

CachedPools ==
    {NoPool} \cup
    { [present |-> TRUE, tokens |-> ts, timestamp |-> StartTime - age] :
        ts \in CachedPoolTokens, age \in PoolAges }

\* The retry loop in depth: a signed-in user with a personal token on a public
\* host, the longest scoped list with the longest pool (or a short list with a
\* short pool), any request class but one.
ScenarioLoop ==
    /\ hostname = PublicHost /\ port = ""
    /\ deviceType = "Android"
    /\ selectedProxyServer = None /\ overrideServerUrl = None
    /\ specificToken = None
    /\ serviceType = "imagen"
    /\ logContext # <<"IMAGEN RECIPE">>
    /\ currentUserLS.personalAuthToken = PersonalToken
    /\ poolItem.present /\ poolItem.timestamp = now
    /\ \/ Len(scopedServers) = MaxScoped /\ poolItem.tokens = SubSeq(PoolBase, 1, MaxPool)
       \/ Len(scopedServers) = 3 /\ Len(poolItem.tokens) = 1

\* The server resolution in breadth: any host and port, device, selected
\* server and override, with a single token.
ScenarioServers ==
    /\ \/ port = ""
       \/ hostname \in {PublicHost, <<"localhost">>}
    /\ serviceType = "imagen"
    /\ poolItem = NoPool
    /\ Len(scopedServers) \in {0, 2, 3}
    /\ \/ /\ ~currentUserLS.present
          /\ specificToken # None
          /\ logContext = <<"IMAGEN UPSCALE">>
          /\ Len(scopedServers) = 0
          /\ deviceType = "iOS" \/ overrideServerUrl # None \/ IsLocalEnv(hostname, port)
       \/ /\ currentUserLS.personalAuthToken = PersonalToken
          /\ specificToken = None
          /\ logContext = <<"IMAGEN RECIPE">>

\* The token resolution in breadth: any cached user, pool and specific token,
\* with a single server (the scoped one, or the local one without a user).
ScenarioTokens ==
    /\ port = ""
    /\ hostname = IF currentUserLS.present THEN PublicHost ELSE <<"localhost">>
    /\ deviceType = "Android"
    /\ selectedProxyServer = None /\ overrideServerUrl = None
    /\ Len(scopedServers) = 1
    /\ logContext = <<"VEO GENERATE">>

\* A veo request over two servers: any cached user and pool, no specific token.
ScenarioVeo ==
    /\ hostname = PublicHost /\ port = ""
    /\ deviceType = "Android"
    /\ selectedProxyServer = None /\ overrideServerUrl = None
    /\ Len(scopedServers) = 2
    /\ serviceType = "veo"
    /\ specificToken = None
    /\ logContext = <<"VEO GENERATE">>

Init ==
    /\ hostname \in Hostnames
    /\ port \in Ports
    /\ deviceType \in Devices
    /\ scopedServers \in ScopedLists
    /\ now = StartTime
    /\ currentUserLS \in UserRecords
    /\ selectedProxyServer \in SelectedServers
    /\ poolItem \in CachedPools
    /\ poolTimestampItem = IF poolItem.present
                           THEN [present |-> TRUE, value |-> poolItem.timestamp]
                           ELSE NoStamp
    /\ logContext \in LogContexts
    /\ serviceType \in {"veo", "imagen"}
    /\ specificToken \in SpecificTokens
    /\ overrideServerUrl \in OverrideServers
    /\ ScenarioLoop \/ ScenarioServers \/ ScenarioTokens \/ ScenarioVeo
    /\ pc = "start"
    /\ currentUser = NoUserRecord
    /\ availableTokens = <<>>
    /\ availableServers = <<>>
    /\ maxRetries = 0
    /\ lastError = NoError
    /\ triedCombinations = 0
    /\ slotRequested = FALSE
    /\ shuffledServers = <<>>
    /\ shuffledTokens = <<>>
    /\ serverIdx = 0
    /\ tokenIdx = 0
    /\ retryCount = 0
    /\ dbUser = NoUserRecord
    /\ freshToken = None
    /\ result = NoResult
    /\ thrown = NoError
    /\ httpLog = <<>>
    /\ slotCalls = <<>>
    /\ logEntries = <<>>
    /\ lastOutcome = NoOutcome
    /\ serversResolved = FALSE
    /\ consulted = {}
    /\ dbAnswer = None
    /\ pinned = NoPin
    /\ poolOp = NoPoolOp
    /\ FlowIdle
    /\ ExtractIdle

\* The initial states of the runs whose progress is checked: those of Init
\* whose retry loop is the short one (three servers, two tokens)
LiveInit ==
    /\ Init
    /\ ScenarioLoop => Len(poolItem.tokens) = 1

-----------------------------------------------------------------------------
(* Token resolution: executeProxiedRequest lines 177-237 *)

TokenInfo(t, src) == [token |-> t, source |-> src]

\* AddPoolTokens without the test for a token already listed
AddPoolTokens_NoDedupe(tokens, poolTokens) ==
    tokens \o [i \in 1..Len(poolTokens) |-> TokenInfo(poolTokens[i], "RandomPool")]

\* lines 209-214: poolTokens.forEach, skipping a token already listed
RECURSIVE AddPoolTokens(_, _)
AddPoolTokens(tokens, poolTokens) ==
    IF poolTokens = <<>> THEN tokens
    ELSE LET t == Head(poolTokens)
             found == \E i \in 1..Len(tokens) : tokens[i].token = t
         IN AddPoolTokens(IF found THEN tokens ELSE Append(tokens, TokenInfo(t, "RandomPool")),
                          Tail(poolTokens))

\* lines 177-200: up to the first token source that answers without a remote call
StartRequest ==
    /\ pc = "start"
    /\ currentUser' = getCurrentUserInternal(currentUserLS)
    /\ IF Truthy(specificToken)
       THEN /\ availableTokens' = <<TokenInfo(specificToken, "Specific")>>
            /\ consulted' = consulted
            /\ pc' = "tokens"
       ELSE IF getPersonalTokenLocal(currentUserLS) # None
       THEN /\ availableTokens' = <<TokenInfo(getPersonalTokenLocal(currentUserLS), "Personal")>>
            /\ consulted' = consulted \cup {"local"}
            /\ pc' = "tokens"
       ELSE /\ availableTokens' = <<>>
            /\ consulted' = consulted \cup {"local", "db"}
            /\ pc' = "db_read"
    /\ UNCHANGED <<sideVars, envVars, storageVars, argVars, availableServers, loopVars,
                   dbVars, endVars, httpLog, slotCalls, logEntries, lastOutcome,
                   serversResolved>>

\* getFreshPersonalTokenFromDB returns tok (None for null) to line 201/221
DbReturn(tok) ==
    /\ freshToken' = tok
    /\ pc' = "tokens"
    /\ UNCHANGED retryCount

\* DbRetryOrNull allowing two retries more
DbRetryOrNull_TwoMore(limit) ==
    IF retryCount < limit + 2
    THEN /\ retryCount' = retryCount + 1
         /\ pc' = "db_read"
         /\ UNCHANGED freshToken
    ELSE DbReturn(None)

\* getFreshPersonalTokenFromDB calls itself with retryCount + 1 while
\* retryCount < limit, and returns null otherwise
DbRetryOrNull(limit) ==
    IF retryCount < limit
    THEN /\ retryCount' = retryCount + 1
         /\ pc' = "db_read"
         /\ UNCHANGED freshToken
    ELSE DbReturn(None)

\* getFreshPersonalTokenFromDB lines 66-79: read the cached user
DbRead ==
    /\ pc = "db_read"
    /\ IF ~currentUserLS.present \/ currentUserLS.id = None
       THEN DbReturn(None) /\ UNCHANGED dbUser
       ELSE /\ dbUser' = currentUserLS
            /\ pc' = "db_userq"
            /\ UNCHANGED <<retryCount, freshToken>>
    /\ UNCHANGED dbAnswer
    /\ UNCHANGED <<sideVars, envVars, storageVars, argVars, currentUser, availableTokens,
                   availableServers, loopVars, endVars, seenVars>>

\* getFreshPersonalTokenFromDB lines 81-97 (and the catch of 139-147):
\* the users table answers
DbUserQuery(r) ==
    /\ pc = "db_userq"
    /\ dbAnswer' = r
    /\ CASE r = "token" ->
              /\ currentUserLS' = [dbUser EXCEPT !.personalAuthToken = DbPersonalToken]
              /\ DbReturn(DbPersonalToken)
         [] r = "none" ->
              /\ pc' = "db_tokenq"
              /\ UNCHANGED <<currentUserLS, retryCount, freshToken>>
         [] r = "throw" ->
              /\ DbRetryOrNull(2)
              /\ UNCHANGED currentUserLS
    /\ UNCHANGED <<sideVars, envVars, selectedProxyServer, poolItem, poolTimestampItem, argVars,
                   currentUser, availableTokens, availableServers, loopVars, dbUser,
                   endVars, seenVars>>

\* getFreshPersonalTokenFromDB lines 101-148: the token_new_active table answers
DbTokenQuery(r) ==
    /\ pc = "db_tokenq"
    /\ dbAnswer' = r
    /\ CASE r = "token" -> DbReturn(DbSharedToken)
         [] r = "error" -> DbRetryOrNull(2)
         [] r = "none"  -> DbRetryOrNull(1)
         [] r = "throw" -> DbRetryOrNull(2)
    /\ UNCHANGED <<sideVars, envVars, storageVars, argVars, currentUser, availableTokens,
                   availableServers, loopVars, dbUser, endVars, seenVars>>

\* AuthErrorMessage with the veo text for both service types
AuthErrorMessage_Same(service) ==
    <<"Authentication failed: No Personal Token found. Please go to Settings > Token & API and set your token.">>

\* lines 232 and 235: the two authentication errors
AuthErrorMessage(service) ==
    IF service = "imagen"
    THEN <<"Authentication failed: No token available. Please login to Flow or set your personal token in Settings > Token & API.">>
    ELSE <<"Authentication failed: No Personal Token found. Please go to Settings > Token & API and set your token.">>

\* CandidateTokens adding the pool tokens to a specific token too
CandidateTokens_PoolAlways(tokens, fresh, specific, service, poolTokens) ==
    LET withFresh == IF Truthy(fresh) THEN Append(tokens, TokenInfo(fresh, "Personal"))
                     ELSE tokens
    IN IF service = "imagen"
       THEN AddPoolTokens(withFresh, poolTokens)
       ELSE withFresh

\* CandidateTokens adding the pool tokens for veo too
CandidateTokens_PoolForVeo(tokens, fresh, specific, service, poolTokens) ==
    LET withFresh == IF Truthy(fresh) THEN Append(tokens, TokenInfo(fresh, "Personal"))
                     ELSE tokens
    IN IF ~Truthy(specific)
       THEN AddPoolTokens(withFresh, poolTokens)
       ELSE withFresh

\* lines 190-227 past the personal token: the candidate token list
CandidateTokens(tokens, fresh, specific, service, poolTokens) ==
    LET withFresh == IF Truthy(fresh) THEN Append(tokens, TokenInfo(fresh, "Personal"))
                     ELSE tokens
    IN IF ~Truthy(specific) /\ service = "imagen"
       THEN AddPoolTokens(withFresh, poolTokens)
       ELSE withFresh

\* lines 202-237: the fresh token, the pool tokens, the empty-list check
FinishTokens ==
    /\ pc = "tokens"
    /\ LET readsPool == ~Truthy(specificToken) /\ serviceType = "imagen"
           tokens == CandidateTokens(availableTokens, freshToken, specificToken,
                                     serviceType, getAllTokens(poolItem, now))
       IN /\ availableTokens' = tokens
          /\ consulted' = IF readsPool THEN consulted \cup {"pool"} ELSE consulted
          /\ poolItem' = IF readsPool THEN PoolItemAfterRead(poolItem, now) ELSE poolItem
          /\ poolTimestampItem' = IF readsPool
                                  THEN PoolTimestampAfterRead(poolItem, poolTimestampItem, now)
                                  ELSE poolTimestampItem
          /\ IF Len(tokens) = 0
             THEN /\ thrown' = Error(AuthErrorMessage(serviceType))
                  /\ pc' = "auth_error"
             ELSE /\ pc' = "servers"
                  /\ UNCHANGED thrown
    /\ UNCHANGED <<sideVars, envVars, currentUserLS, selectedProxyServer, argVars, currentUser,
                   availableServers, loopVars, dbVars, result, httpLog, slotCalls,
                   logEntries, lastOutcome, serversResolved>>

-----------------------------------------------------------------------------
(* Server resolution: executeProxiedRequest lines 239-274 *)

\* PromoteSelected putting the selected server first even when the list
\* does not hold it
PromoteSelected_Always(servers, sel) ==
    LET IsOther(x) == x # sel
    IN IF Truthy(sel)
       THEN <<sel>> \o SelectSeq(servers, IsOther)
       ELSE servers

\* line 262: the selected server first, then the others in their order
PromoteSelected(servers, sel) ==
    LET IsOther(x) == x # sel
    IN IF Truthy(sel) /\ SeqIncludes(servers, sel)
       THEN <<sel>> \o SelectSeq(servers, IsOther)
       ELSE servers

\* lines 244-263: the scoped list, the device filter, the selected server
FilteredServers(user, scoped, device, sel) ==
    LET all == IF user.present THEN scoped ELSE PROXY_SERVER_URLS
        deviceServers == getServersForDevice(device, all)
        kept == IF Len(deviceServers) > 0 THEN deviceServers ELSE all
    IN PromoteSelected(kept, sel)

\* CandidateServers with the override applied after the localhost collapse
CandidateServers_OverrideLast(override, user, scoped, device, sel, h, p) ==
    IF Truthy(override) THEN <<override>>
    ELSE IF IsLocalEnv(h, p) THEN <<LOCAL_SERVER>>
    ELSE FilteredServers(user, scoped, device, sel)

\* CandidateServers with a selected server preferred to the override
CandidateServers_SelectedFirst(override, user, scoped, device, sel, h, p) ==
    IF IsLocalEnv(h, p) THEN <<LOCAL_SERVER>>
    ELSE IF Truthy(override) /\ ~Truthy(sel) THEN <<override>>
    ELSE FilteredServers(user, scoped, device, sel)

\* lines 240-274: the candidate server list
CandidateServers(override, user, scoped, device, sel, h, p) ==
    IF IsLocalEnv(h, p) THEN <<LOCAL_SERVER>>
    ELSE IF Truthy(override) THEN <<override>>
    ELSE FilteredServers(user, scoped, device, sel)

-----------------------------------------------------------------------------
(* The retry loop: executeProxiedRequest lines 276-424 *)

MAX_COMBINATIONS == 10

SLOT_COOLDOWN_SECONDS == 10

Min(a, b) == IF a < b THEN a ELSE b

\* RetryBudget without the cap of 10 combinations
RetryBudget_Uncapped(ctx, nServers, nTokens) ==
    IF IsGenerationRequest(ctx) THEN nServers * nTokens ELSE 1

\* line 277
RetryBudget(ctx, nServers, nTokens) ==
    IF IsGenerationRequest(ctx) THEN Min(nServers * nTokens, MAX_COMBINATIONS) ELSE 1

\* lines 284-285: [...list].sort(() => Math.random() - 0.5) gives some
\* permutation of the list
RECURSIVE PermsOf(_)
PermsOf(I) ==
    IF I = {} THEN {<<>>}
    ELSE UNION { { <<i>> \o q : q \in PermsOf(I \ {i}) } : i \in I }

Shuffles(list) == { [k \in 1..Len(list) |-> list[q[k]]] : q \in PermsOf(1..Len(list)) }

\* NextPosition that never moves on to the next server
NextPosition_OneServer(sIdx, tIdx, tried, budget, nServers, nTokens, brk) ==
    IF ~brk /\ tIdx + 1 < nTokens /\ tried < budget
    THEN [run |-> TRUE, s |-> sIdx, t |-> tIdx + 1]
    ELSE [run |-> FALSE, s |-> sIdx + 1, t |-> 0]

\* NextPosition walking the servers before the tokens (column-major)
NextPosition_ServerFirst(sIdx, tIdx, tried, budget, nServers, nTokens, brk) ==
    IF ~brk /\ sIdx + 1 < nServers /\ tried < budget
    THEN [run |-> TRUE, s |-> sIdx + 1, t |-> tIdx]
    ELSE IF tIdx + 1 < nTokens /\ tried < budget
    THEN [run |-> TRUE, s |-> 0, t |-> tIdx + 1]
    ELSE [run |-> FALSE, s |-> sIdx + 1, t |-> 0]

\* The loop headers of lines 287 and 290, from the end of the iteration at
\* (sIdx, tIdx): the indices of the next iteration, or run = FALSE when both
\* loops are left.  brk: the iteration ended with the break of line 397.
\* (shuffledTokens is never empty here: line 229.)
NextPosition(sIdx, tIdx, tried, budget, nServers, nTokens, brk) ==
    IF ~brk /\ tIdx + 1 < nTokens /\ tried < budget
    THEN [run |-> TRUE, s |-> sIdx, t |-> tIdx + 1]
    ELSE IF sIdx + 1 < nServers /\ tried < budget
    THEN [run |-> TRUE, s |-> sIdx + 1, t |-> 0]
    ELSE [run |-> FALSE, s |-> sIdx + 1, t |-> 0]

\* NeedsSlot without the test for the first combination
NeedsSlot_AnyAttempt(ctx, requested, tried) ==
    IsGenerationRequest(ctx) /\ ~requested

\* line 303: the iteration asks for a generation slot first
NeedsSlot(ctx, requested, tried) ==
    IsGenerationRequest(ctx) /\ ~requested /\ tried = 1

\* lines 291-303: an iteration starts at (sIdx, tIdx) and runs up to its
\* first await
EnterIteration(sIdx, tIdx) ==
    /\ serverIdx' = sIdx
    /\ tokenIdx' = tIdx
    /\ triedCombinations' = triedCombinations + 1
    /\ pc' = IF NeedsSlot(logContext, slotRequested, triedCombinations + 1)
             THEN "slot" ELSE "fetch"

LogEntry(ctx, promptText, errMsg) ==
    [model |-> ctx, prompt |-> promptText, output |-> errMsg, tokenCount |-> 0,
     status |-> "Error", error |-> errMsg]

\* line 410
ExhaustedPrompt(tried) ==
    <<"Failed after ", ToString(tried), " attempts with different server/token combinations">>

\* line 419
ExhaustedMessage(tried, errMsg) ==
    <<"Generation failed after trying ", ToString(tried),
      " different server/token combinations. Last error: ">> \o errMsg

NoCombinationMessage == <<"Generation failed: No server/token combination available">>

\* AfterLoop that appends its record for a status check too
AfterLoop_LogAlways(err, tried) ==
    IF err.set
    THEN /\ logEntries' = Append(logEntries,
                                 LogEntry(logContext, ExhaustedPrompt(tried), err.message))
         /\ thrown' = Error(ExhaustedMessage(tried, err.message))
         /\ pc' = "exhausted"
    ELSE /\ thrown' = Error(NoCombinationMessage)
         /\ pc' = "no_combination"
         /\ UNCHANGED logEntries

\* lines 403-423: both loops are left without a return
AfterLoop(err, tried) ==
    IF err.set
    THEN /\ logEntries' = IF IsStatusCheck(logContext) THEN logEntries
                          ELSE Append(logEntries,
                                      LogEntry(logContext, ExhaustedPrompt(tried), err.message))
         /\ thrown' = Error(ExhaustedMessage(tried, err.message))
         /\ pc' = "exhausted"
    ELSE /\ thrown' = Error(NoCombinationMessage)
         /\ pc' = "no_combination"
         /\ UNCHANGED logEntries

\* lines 239-292: the server list, the budget, the two shuffles, and the
\* loop headers for the first time
ResolveServers ==
    /\ pc = "servers"
    /\ LET servers == CandidateServers(overrideServerUrl, currentUser, scopedServers,
                                       deviceType, selectedProxyServer, hostname, port)
           budget == RetryBudget(logContext, Len(servers), Len(availableTokens))
       IN /\ availableServers' = servers
          /\ serversResolved' = TRUE
          /\ maxRetries' = budget
          /\ shuffledServers' \in Shuffles(servers)
          /\ shuffledTokens' \in Shuffles(availableTokens)
          /\ IF 0 < Len(servers) /\ 0 < budget
             THEN /\ EnterIteration(0, 0)
                  /\ UNCHANGED <<thrown, logEntries>>
             ELSE /\ AfterLoop(lastError, triedCombinations)
                  /\ UNCHANGED <<serverIdx, tokenIdx, triedCombinations>>
    /\ UNCHANGED <<sideVars, envVars, storageVars, argVars, currentUser, availableTokens,
                   lastError, slotRequested, dbVars, result,
                   httpLog, slotCalls, lastOutcome, consulted>>

\* SlotRequest whose failure uses up a combination
SlotRequest_FailureCounts(ok) ==
    /\ pc = "slot"
    /\ slotCalls' = Append(slotCalls, [cooldown_seconds |-> SLOT_COOLDOWN_SECONDS,
                                       server_url |-> shuffledServers[serverIdx + 1]])
    /\ slotRequested' = ok
    /\ triedCombinations' = IF ok \/ triedCombinations >= maxRetries
                            THEN triedCombinations ELSE triedCombinations + 1
    /\ pc' = "fetch"
    /\ UNCHANGED <<sideVars, envVars, storageVars, argVars, currentUser, availableTokens,
                   availableServers, maxRetries, lastError,
                   shuffledServers, shuffledTokens, serverIdx, tokenIdx, dbVars, endVars,
                   httpLog, logEntries, lastOutcome, serversResolved, consulted>>

\* lines 303-312: supabase.rpc('request_generation_slot', ...) resolves
\* (ok) or throws
SlotRequest(ok) ==
    /\ pc = "slot"
    /\ slotCalls' = Append(slotCalls, [cooldown_seconds |-> SLOT_COOLDOWN_SECONDS,
                                       server_url |-> shuffledServers[serverIdx + 1]])
    /\ slotRequested' = ok
    /\ pc' = "fetch"
    /\ UNCHANGED <<sideVars, envVars, storageVars, argVars, currentUser, availableTokens,
                   availableServers, maxRetries, lastError, triedCombinations,
                   shuffledServers, shuffledTokens, serverIdx, tokenIdx, dbVars, endVars,
                   httpLog, logEntries, lastOutcome, serversResolved, consulted>>

\* line 374
FatalPrompt(source) == <<"Failed using ", source, " token">>

\* SuccessValue reporting the first combination instead of the current one
SuccessValue_First(data, tokenInfo, serverUrl) ==
    [set |-> TRUE, data |-> data, successfulToken |-> shuffledTokens[1].token,
     successfulServerUrl |-> shuffledServers[1]]

\* line 361: the value the call resolves with
SuccessValue(data, tokenInfo, serverUrl) ==
    [set |-> TRUE, data |-> data, successfulToken |-> tokenInfo.token,
     successfulServerUrl |-> serverUrl]

\* ThrowHardError leaving the loops (break) instead of re-throwing
ThrowHardError_Break(tokenInfo, err) ==
    /\ lastError' = err
    /\ logEntries' = IF IsStatusCheck(logContext) THEN logEntries
                     ELSE Append(logEntries,
                                 LogEntry(logContext,
                                          <<"Failed after ", ToString(triedCombinations),
                                            " attempts with different server/token combinations">>,
                                          err.message))
    /\ thrown' = Error(<<"Generation failed after trying ", ToString(triedCombinations),
                         " different server/token combinations. Last error: ">> \o err.message)
    /\ pc' = "exhausted"
    /\ UNCHANGED <<serverIdx, tokenIdx, triedCombinations>>

\* lines 369-382: a hard error is logged (unless a status check) and re-thrown
ThrowHardError(tokenInfo, err) ==
    /\ logEntries' = IF IsStatusCheck(logContext) THEN logEntries
                     ELSE Append(logEntries,
                                 LogEntry(logContext, FatalPrompt(tokenInfo.source), err.message))
    /\ thrown' = err
    /\ pc' = "fatal"
    /\ UNCHANGED <<lastError, serverIdx, tokenIdx, triedCombinations>>

\* lines 352-354 and 384-399, then the loop headers: lastError is set and the
\* next combination is tried, or the loops are left
TryNextCombination(err, brk) ==
    LET next == NextPosition(serverIdx, tokenIdx, triedCombinations, maxRetries,
                             Len(shuffledServers), Len(shuffledTokens),
                             brk /\ triedCombinations >= maxRetries)
    IN /\ lastError' = err
       /\ IF next.run
          THEN /\ EnterIteration(next.s, next.t)
               /\ UNCHANGED <<thrown, logEntries>>
          ELSE /\ AfterLoop(err, triedCombinations)
               /\ UNCHANGED <<serverIdx, tokenIdx, triedCombinations>>

\* lines 314-399 and the loop headers after them: the fetch of the current
\* combination produces o
Fetch(o) ==
    /\ pc = "fetch"
    /\ LET serverUrl == shuffledServers[serverIdx + 1]
           tokenInfo == shuffledTokens[tokenIdx + 1]
           it == Iteration(o, serverUrl)
       IN /\ httpLog' = Append(httpLog, [server |-> serverUrl, token |-> tokenInfo.token,
                                         service |-> serviceType])
          /\ lastOutcome' = o
          /\ CASE it.kind = "success" ->
                    /\ result' = SuccessValue(it.data, tokenInfo, serverUrl)
                    /\ pc' = "success"
                    /\ UNCHANGED <<thrown, logEntries, lastError, serverIdx, tokenIdx,
                                   triedCombinations>>
               [] it.kind = "fatal" ->
                    /\ ThrowHardError(tokenInfo, it.error)
                    /\ UNCHANGED result
               [] it.kind = "retry" ->
                    /\ TryNextCombination(it.error, it.brk)
                    /\ UNCHANGED result
    /\ UNCHANGED <<sideVars, envVars, storageVars, argVars, currentUser, availableTokens,
                   availableServers, maxRetries, slotRequested, shuffledServers,
                   shuffledTokens, dbVars, slotCalls, serversResolved, consulted>>

Next ==
    \/ StartRequest
    \/ DbRead
    \/ \E r \in UserQueryResults : DbUserQuery(r)
    \/ \E r \in TokenQueryResults : DbTokenQuery(r)
    \/ FinishTokens
    \/ ResolveServers
    \/ \E ok \in BOOLEAN : SlotRequest(ok)
    \/ \E o \in Outcomes : Fetch(o)

Spec == Init /\ [][Next]_vars

\* Every awaited call settles (the remote lookups, the slot reservation and
\* fetch resolve or reject) and the code between two awaits runs to the next
\* one: a dispatch that can take a step takes it.
LiveSpec == LiveInit /\ [][Next]_vars /\ WF_vars(Next)

-----------------------------------------------------------------------------
(* Properties *)

Terminal == pc \in {"success", "fatal", "exhausted", "auth_error", "no_combination"}

Attempts == Len(httpLog)

LastAttempt == httpLog[Len(httpLog)]

\* how the dispatcher classified the last attempt
LastKind ==
    IF Len(httpLog) = 0 THEN "none" ELSE Iteration(lastOutcome, LastAttempt.server).kind

\* the error the last attempt left
LastAttemptError == Iteration(lastOutcome, LastAttempt.server).error

GenerationClass == Includes(logContext, "GENERATE") \/ Includes(logContext, "RECIPE")

\* min(|servers| x |tokens|, 10) for generation work, 1 otherwise
ExpectedBudget ==
    IF GenerationClass
    THEN Min(Len(availableServers) * Len(availableTokens), 10)
    ELSE 1

ListsNonEmpty == serversResolved /\ Len(availableServers) > 0 /\ Len(availableTokens) > 0

ExhaustedReported ==
    \/ thrown.set /\ thrown.message[1] = "Generation failed after trying "
    \/ \E i \in 1..Len(logEntries) : logEntries[i].prompt[1] = "Failed after "

\* C1: the attempt counter never exceeds the computed budget; with non-empty
\* lists the number of HTTP attempts is at most min(|servers| x |tokens|, 10)
\* for a logContext containing GENERATE or RECIPE, and exactly 1 (once the
\* dispatch has ended) for every other logContext.
C1_AttemptsWithinBudget ==
    /\ triedCombinations <= maxRetries
    /\ Attempts <= triedCombinations
    /\ serversResolved => maxRetries = ExpectedBudget
    /\ ListsNonEmpty =>
         IF GenerationClass
         THEN Attempts <= Min(Len(availableServers) * Len(availableTokens), 10)
         ELSE Attempts <= 1 /\ (Terminal => Attempts = 1)

\* C1 witness: twelve combinations, and the dispatch stopped after ten attempts
C1_Witness ==
    /\ pc = "exhausted"
    /\ Attempts = 10
    /\ Len(availableServers) * Len(availableTokens) > 10

\* C2: once an attempt is classified as fatal the dispatch has ended with that
\* attempt's error, the aggregate "failed after N attempts" record and error
\* are not produced, and no step (so no further attempt) follows.
C2_FatalEndsDispatch ==
    /\ [](LastKind = "fatal" =>
            /\ pc = "fatal"
            /\ thrown = LastAttemptError
            /\ ~result.set
            /\ ~ExhaustedReported)
    /\ [][pc # "fatal"]_vars

\* C2 witness: a fatal failure on a later attempt, with budget left
C2_Witness ==
    /\ pc = "fatal"
    /\ Attempts >= 2
    /\ triedCombinations < maxRetries

\* C3: an attempt answered 2xx with a JSON body ends the dispatch in success;
\* the returned token and server are those of that (last) attempt, as many
\* attempts were made as the counter says, and no step follows the success.
C3_SuccessReturnsLastPair ==
    /\ [](/\ (Attempts > 0 /\ lastOutcome.kind = "response" /\ IsOk(lastOutcome.status)
                 /\ lastOutcome.body = "json") => pc = "success"
          /\ pc = "success" =>
                /\ result.set
                /\ result.successfulToken = LastAttempt.token
                /\ result.successfulServerUrl = LastAttempt.server
                /\ Attempts = triedCombinations
                /\ ~thrown.set)
    /\ [][pc # "success"]_vars

\* C3 witness: two retriable failures, then a success on the second server
C3_Witness ==
    /\ pc = "success"
    /\ Attempts = 3
    /\ lastOutcome.body = "json"
    /\ LastAttempt.server # httpLog[1].server
    /\ LastAttempt.token # httpLog[2].token

\* C4: with non-empty lists, while attempts end in retriable failures the
\* dispatch goes on until the budget is spent, and then fails with the
\* exhausted error, which reports as many attempts as the budget and the
\* error of the last attempt.
C4_ExhaustedAfterBudget ==
    /\ (ListsNonEmpty /\ LastKind = "retry" /\ Attempts < ExpectedBudget) =>
          pc = "fetch"
    /\ (ListsNonEmpty /\ LastKind = "retry" /\ pc # "fetch") =>
          /\ pc = "exhausted"
          /\ Attempts = ExpectedBudget
          /\ thrown = Error(<<"Generation failed after trying ", ToString(ExpectedBudget),
                              " different server/token combinations. Last error: ">>
                            \o LastAttemptError.message)
    /\ pc = "exhausted" => LastKind = "retry"

\* C4 witness: every attempt failed as retriable on a list of several servers
\* and tokens
C4_Witness ==
    /\ pc = "exhausted"
    /\ Attempts = Len(availableServers) * Len(availableTokens)
    /\ Len(availableServers) > 1
    /\ Len(availableTokens) > 1


\* the markers of a rejected prompt, in any letter case
HasHardMarker(m) ==
    \/ Includes(ToLowerCase(m), "safety")
    \/ Includes(ToLowerCase(m), "blocked")
    \/ Includes(ToLowerCase(m), "invalid prompt")

\* the last fetch was answered (it did not throw) with a status outside 2xx
LastNon2xx == Attempts > 0 /\ lastOutcome.kind = "response" /\ ~IsOk(lastOutcome.status)

\* the last fetch (or the reading of its body) threw
LastThrew == Attempts > 0 /\ lastOutcome.kind = "throw"

\* C5: an attempt whose network call throws is never fatal, whatever the text
\* of the error: the dispatch goes on while budget remains and ends in the
\* exhausted error otherwise.
C5_TransportErrorRetriable ==
    LastThrew =>
        /\ pc # "fatal"
        /\ pc \in {"fetch", "exhausted"}
        /\ pc = "exhausted" <=> Attempts = maxRetries

\* C6: a non-2xx response is fatal if and only if its status is 400 or its
\* error message contains safety, blocked or invalid prompt in any case;
\* every other non-2xx response advances to the next combination.
C6_FatalIffStatusOrMarker ==
    LastNon2xx =>
        /\ pc = "fatal" <=> (lastOutcome.status = 400 \/ HasHardMarker(lastOutcome.message))
        /\ pc # "fatal" => /\ pc \in {"fetch", "exhausted"}
                           /\ lastError.set
                           /\ pc = "exhausted" <=> Attempts = maxRetries

\* C7: the call never resolves with the synthesized "Proxy returned non-JSON"
\* envelope as its data: a body that is not JSON is a retriable failure.
C7_NonJsonNeverSuccess ==
    /\ pc = "success" => result.data.kind # "envelope"
    /\ (Attempts > 0 /\ lastOutcome.kind = "response" /\ lastOutcome.body = "text") =>
          pc \in {"fetch", "exhausted", "fatal"}

\* C8: with no candidate token the call fails with the authentication error
\* of its service type before any fetch, slot reservation, server resolution
\* or log entry, and nothing follows; the two messages differ.
C8_AuthErrorFirst ==
    /\ []((pc \notin {"start", "db_read", "db_userq", "db_tokenq", "tokens"}
              /\ Len(availableTokens) = 0) => pc = "auth_error")
    /\ [](pc = "auth_error" =>
            /\ Len(availableTokens) = 0
            /\ Attempts = 0
            /\ Len(slotCalls) = 0
            /\ ~serversResolved
            /\ Len(logEntries) = 0
            /\ ~result.set
            /\ thrown.set
            /\ serviceType = "imagen" =>
                 thrown.message = <<"Authentication failed: No token available. Please login to Flow or set your personal token in Settings > Token & API.">>
            /\ serviceType = "veo" =>
                 thrown.message = <<"Authentication failed: No Personal Token found. Please go to Settings > Token & API and set your token.">>)
    /\ [][pc # "auth_error"]_vars

\* C8 witness: an imagen request with no personal token anywhere and an
\* expired pool
C8_Witness ==
    /\ pc = "auth_error"
    /\ serviceType = "imagen"
    /\ currentUserLS.present
    /\ retryCount > 0

\* the runtime is a local development environment
LocalRuntime ==
    \/ hostname \in { <<"localhost">>, <<"127", "0", "0", "1">>, <<"0", "0", "0", "0">> }
    \/ hostname[1] = "192" /\ hostname[2] = "168"
    \/ hostname[1] = "10"
    \/ hostname[1] = "172"
    \/ port \in {"8080", "3000"}

AllAttemptsTarget(url) == \A i \in 1..Len(httpLog) : httpLog[i].server = url

\* C9: in a local development environment every HTTP attempt targets
\* http://localhost:3001, whatever the registry, the device filter, the
\* selected server or overrideServerUrl contain.
C9_LocalEnvOnlyLocalhost ==
    LocalRuntime =>
        /\ AllAttemptsTarget("http://localhost:3001")
        /\ serversResolved => availableServers = <<"http://localhost:3001">>

\* C9 witness: a private-range host, an override and a selected server, and
\* an attempt was made
C9_Witness ==
    /\ hostname = <<"172", "16", "0", "9">>
    /\ overrideServerUrl # None
    /\ selectedProxyServer # None
    /\ Attempts > 0

\* C10 as claimed: with overrideServerUrl passed the candidate list is that
\* one server and every attempt targets it.
C10_OverrideAlways ==
    overrideServerUrl # None =>
        /\ AllAttemptsTarget(overrideServerUrl)
        /\ serversResolved => availableServers = <<overrideServerUrl>>

\* C10 amended: outside a local development environment, with
\* overrideServerUrl passed the candidate list is that one server and every
\* attempt targets it (registry, device filter and selected server unused).
C10_OverrideOutsideLocalEnv ==
    (overrideServerUrl # None /\ ~LocalRuntime) =>
        /\ AllAttemptsTarget(overrideServerUrl)
        /\ serversResolved => availableServers = <<overrideServerUrl>>

\* C10 witness: an override outside the scoped list, with a selected server
\* inside it, and an attempt was made
C10_Witness ==
    /\ overrideServerUrl # None
    /\ ~LocalRuntime
    /\ Len(scopedServers) > 1
    /\ selectedProxyServer = "https://s7.monoklix.com"
    /\ Attempts > 0

\* C11: when the user-scoped registry returns no server and a token is
\* available, the dispatch does not fail for lack of servers: it ends having
\* made at least one HTTP attempt.
C11_EmptyServersUseDefaults ==
    (serversResolved /\ currentUser.present /\ Len(scopedServers) = 0
        /\ Len(availableTokens) > 0) =>
        /\ pc # "no_combination"
        /\ Terminal => Attempts >= 1

\* C12 as claimed: for every logContext a dispatch that ended in a fatal
\* failure or in budget exhaustion has appended exactly one log entry, and
\* one that ended in success none.
C12_LogEntryAlways ==
    /\ pc \in {"fatal", "exhausted"} => Len(logEntries) = 1
    /\ pc = "success" => Len(logEntries) = 0

\* C12 amended: a dispatch that ended in a fatal failure or in budget
\* exhaustion has appended exactly one log entry unless its logContext is
\* 'VEO STATUS', for which it has appended none; in every other state
\* (success, or attempts that failed as retriable with the loop still
\* running) no log entry has been appended.
C12_LogEntryUnlessStatusCheck ==
    /\ pc \in {"fatal", "exhausted"} =>
          Len(logEntries) = (IF logContext = <<"VEO STATUS">> THEN 0 ELSE 1)
    /\ pc \notin {"fatal", "exhausted"} => Len(logEntries) = 0

\* C12 witness: several attempts failed as retriable, the budget is spent and
\* one record was appended
C12_Witness ==
    /\ pc = "exhausted"
    /\ Attempts >= 3
    /\ Len(logEntries) = 1
    /\ logEntries[1].prompt[1] = "Failed after "

\* C13: within one dispatch no (server URL, token value) pair is attempted
\* more than once, whatever lists the resolvers produce.
C13_NoPairTwice ==
    \A i, j \in 1..Len(httpLog) :
        i # j => ~(httpLog[i].server = httpLog[j].server /\ httpLog[i].token = httpLog[j].token)

\* the attempt that is k-th in row-major order over the shuffled lists
RowMajorServer(k) == shuffledServers[((k - 1) \div Len(shuffledTokens)) + 1]
RowMajorToken(k) == shuffledTokens[((k - 1) % Len(shuffledTokens)) + 1].token

\* C14: attempts are sequential and row-major over the shuffled lists: the
\* k-th fetch used server floor((k-1)/|tokens|) and token (k-1) mod |tokens|,
\* at most one attempt is under way, and it is the next one in that order.
C14_RowMajorSequential ==
    /\ \A k \in 1..Len(httpLog) :
          /\ httpLog[k].server = RowMajorServer(k)
          /\ httpLog[k].token = RowMajorToken(k)
    /\ pc \in {"slot", "fetch"} =>
          /\ triedCombinations = Attempts + 1
          /\ serverIdx = Attempts \div Len(shuffledTokens)
          /\ tokenIdx = Attempts % Len(shuffledTokens)
    /\ (serversResolved /\ pc \notin {"slot", "fetch"}) => triedCombinations = Attempts

\* C14 witness: with three tokens and several servers the fourth attempt is
\* the first on the second server
C14_Witness ==
    /\ Len(shuffledTokens) = 3
    /\ Len(shuffledServers) > 1
    /\ Attempts >= 4
    /\ httpLog[3].server = shuffledServers[1]
    /\ httpLog[4].server = shuffledServers[2]
    /\ httpLog[4].token = httpLog[1].token

\* the dispatch gave up: it ended in a fatal failure or in budget exhaustion
GaveUp == pc \in {"fatal", "exhausted"}

\* the first attempt failed with a retriable error (every attempt but the
\* last one did: the loop went on after it)
FirstAttemptRetried == Attempts >= 2 \/ (Attempts = 1 /\ LastKind = "retry")

\* fetches went to two different servers
TwoServersAttempted ==
    \E i, j \in 1..Len(httpLog) : httpLog[i].server # httpLog[j].server

NoServerTwice ==
    \A i, j \in 1..Len(availableServers) :
        i # j => availableServers[i] # availableServers[j]

C15_Case ==
    /\ GenerationClass
    /\ serversResolved
    /\ Len(availableServers) >= 2
    /\ NoServerTwice
    /\ Len(availableTokens) < maxRetries

C16_SlotOnceBeforeFirstFetch ==
    /\ [](/\ Len(slotCalls) <= 1
          /\ ~GenerationClass => Len(slotCalls) = 0
          /\ (GenerationClass /\ Attempts >= 1) => Len(slotCalls) = 1
          /\ Len(slotCalls) = 1 =>
                /\ slotCalls[1].cooldown_seconds = 10
                /\ slotCalls[1].server_url = shuffledServers[1]
                /\ Attempts >= 1 => slotCalls[1].server_url = httpLog[1].server)
    /\ [][Len(slotCalls') > Len(slotCalls) => (Attempts = 0 /\ triedCombinations = 1)]_vars

\* C16 witness: the reservation failed, the first attempt failed as retriable,
\* and the retries went on without another reservation
C16_Witness ==
    /\ GenerationClass
    /\ Len(slotCalls) = 1
    /\ ~slotRequested
    /\ Attempts >= 2

\* the reservation was asked for and threw
SlotFailed == Len(slotCalls) = 1 /\ ~slotRequested

\* C17: a reservation that throws changes nothing but the record of the call:
\* the fetch of the same server and token follows, the attempt counter, the
\* budget and lastError are as they were, nothing is thrown or logged for it.
C17_SlotFailureHarmless ==
    /\ [](SlotFailed =>
            /\ pc # "slot"
            /\ Attempts <= triedCombinations
            /\ Attempts = 0 => (pc = "fetch" /\ triedCombinations = 1 /\ serverIdx = 0
                                  /\ tokenIdx = 0 /\ ~lastError.set /\ ~thrown.set
                                  /\ Len(logEntries) = 0)
            /\ Attempts >= 1 => /\ httpLog[1].server = slotCalls[1].server_url
                                /\ httpLog[1].token = shuffledTokens[1].token
            /\ Terminal => Attempts = triedCombinations)
    /\ [][pc = "slot" =>
            /\ pc' = "fetch"
            /\ UNCHANGED <<triedCombinations, maxRetries, serverIdx, tokenIdx, lastError,
                           thrown, result, httpLog, logEntries, shuffledServers,
                           shuffledTokens>>]_vars

\* C17 witness: the reservation threw and the first attempt succeeded
C17_Witness ==
    /\ SlotFailed
    /\ pc = "success"
    /\ Attempts = 1
    /\ triedCombinations = 1

\* the token list is final: the call is past line 227
TokensResolved == pc \notin {"start", "db_read", "db_userq", "db_tokenq", "tokens"}

AllAttemptsCarry(t) == \A i \in 1..Len(httpLog) : httpLog[i].token = t

\* C18: with specificToken passed the candidate list is that one token with
\* provenance 'Specific' and every attempt carries it; the cached personal
\* token, the remote lookup and the token pool are not asked, and neither the
\* cached current-user record nor the cached pool is written.
C18_SpecificTokenOnly ==
    /\ [](specificToken # None =>
            /\ consulted = {}
            /\ pc \notin {"db_read", "db_userq", "db_tokenq"}
            /\ retryCount = 0 /\ freshToken = None
            /\ AllAttemptsCarry(specificToken)
            /\ TokensResolved =>
                 availableTokens = <<[token |-> specificToken, source |-> "Specific"]>>)
    /\ [][specificToken # None =>
            UNCHANGED <<currentUserLS, poolItem, poolTimestampItem>>]_vars

\* C18 witness: a specific token with a cached personal token and an expired
\* pool at hand, for imagen, and an attempt was made
C18_Witness ==
    /\ specificToken # None
    /\ serviceType = "imagen"
    /\ currentUserLS.personalAuthToken # ""
    /\ poolItem.present /\ now - poolItem.timestamp > 24
    /\ Attempts >= 1

\* the personal token the call resolved: the cached one, else the one the
\* remote lookup gave, else None
ResolvedPersonal ==
    IF freshToken # None THEN freshToken
    ELSE IF currentUserLS.present /\ currentUserLS.personalAuthToken # ""
    THEN currentUserLS.personalAuthToken
    ELSE None

\* the unexpired cached pool tokens (an expired pool is removed as it is read)
UnexpiredPoolTokens ==
    IF poolItem.present /\ now - poolItem.timestamp <= 24
    THEN { poolItem.tokens[i] : i \in 1..Len(poolItem.tokens) }
    ELSE {}

\* the position of token value t in the candidate list
PositionOf(t) == CHOOSE i \in 1..Len(availableTokens) : availableTokens[i].token = t

\* C19: for imagen without specificToken the candidate list is the resolved
\* personal token (if any) first with provenance 'Personal', then every
\* unexpired cached pool token with provenance 'RandomPool' in pool order,
\* and no token value twice.
C19_ImagenTokenList ==
    (serviceType = "imagen" /\ specificToken = None /\ TokensResolved) =>
        /\ \A i, j \in 1..Len(availableTokens) :
              i # j => availableTokens[i].token # availableTokens[j].token
        /\ { availableTokens[i].token : i \in 1..Len(availableTokens) }
              = UnexpiredPoolTokens \cup (IF ResolvedPersonal = None THEN {} ELSE {ResolvedPersonal})
        /\ ResolvedPersonal # None =>
              availableTokens[1] = [token |-> ResolvedPersonal, source |-> "Personal"]
        /\ \A i \in 1..Len(availableTokens) :
              (i > 1 \/ ResolvedPersonal = None) => availableTokens[i].source = "RandomPool"
        /\ poolItem.present =>
              \A i, j \in 1..Len(poolItem.tokens) :
                 (/\ i < j
                  /\ poolItem.tokens[i] # poolItem.tokens[j]
                  /\ ResolvedPersonal \notin {poolItem.tokens[i], poolItem.tokens[j]}) =>
                    PositionOf(poolItem.tokens[i]) < PositionOf(poolItem.tokens[j])

\* C19 witness: the pool holds the personal token and another one
C19_Witness ==
    /\ serviceType = "imagen" /\ specificToken = None /\ TokensResolved
    /\ ResolvedPersonal # None
    /\ ResolvedPersonal \in UnexpiredPoolTokens
    /\ Len(availableTokens) = 2
    /\ Attempts >= 1

\* C20: for veo without specificToken the token pool is never read (nor
\* cleared), the candidate list holds at most one token, of provenance
\* 'Personal', and every attempt of the dispatch carries that token.
C20_VeoPersonalOnly ==
    /\ []((serviceType = "veo" /\ specificToken = None) =>
            /\ "pool" \notin consulted
            /\ Len(availableTokens) <= 1
            /\ \A i \in 1..Len(availableTokens) : availableTokens[i].source = "Personal"
            /\ \A i \in 1..Len(httpLog) : httpLog[i].token = availableTokens[1].token
            /\ (TokensResolved /\ ResolvedPersonal # None) =>
                  availableTokens = <<[token |-> ResolvedPersonal, source |-> "Personal"]>>)
    /\ [][(serviceType = "veo" /\ specificToken = None) =>
            UNCHANGED <<poolItem, poolTimestampItem>>]_vars

\* C20 witness: a veo dispatch with an unexpired pool of other tokens at hand
\* made attempts on two servers
C20_Witness ==
    /\ serviceType = "veo" /\ specificToken = None
    /\ poolItem.present /\ now - poolItem.timestamp <= 24
    /\ Len(poolItem.tokens) = 2
    /\ Attempts = 2
    /\ httpLog[1].server # httpLog[2].server

\* the remote token lookup is running
InLookup == pc \in {"db_read", "db_userq", "db_tokenq"}

\* C21: the remote token lookup is retried at most 3 times; a retry follows a
\* lookup that errored or threw only while fewer than 2 retries were made, and
\* a lookup that found no token only if no retry was made; and the lookup
\* always ends, handing a token or none to the token resolution.
C21_LookupTerminates ==
    /\ [](retryCount <= 3)
    /\ [][retryCount' # retryCount =>
            /\ retryCount' = retryCount + 1
            /\ dbAnswer' \in {"throw", "error", "none"}
            /\ dbAnswer' \in {"throw", "error"} => retryCount < 2
            /\ dbAnswer' = "none" => retryCount < 1]_vars
    /\ [][(InLookup /\ ~InLookup') =>
            (pc' = "tokens" /\ freshToken' \in {None, DbPersonalToken, DbSharedToken})]_vars
    /\ InLookup ~> (pc = "tokens")

\* C21 witness: the lookup threw, threw again, found no token on the second
\* retry and ended with none
C21_Witness ==
    /\ pc = "tokens"
    /\ retryCount = 2
    /\ dbAnswer = "none"
    /\ freshToken = None


(***************************************************************************)
(* The cached current-user record under concurrent writers                 *)
(***************************************************************************)

\* what another in-flight dispatch or the application can leave in the
\* 'currentUser' cache: another field updated, the record removed, the record
\* of another user
ConcurrentRecords ==
    { NoUserRecord,
      [present |-> TRUE, id |-> "u1", username |-> "alice2", personalAuthToken |-> ""],
      [present |-> TRUE, id |-> "u2", username |-> "bob", personalAuthToken |-> ""] }

\* another writer changes the 'currentUser' cache while the dispatch awaits
\* the users table (between the read of line 67 and the write of line 94)
CacheChange(rec) ==
    /\ pc = "db_userq"
    /\ currentUserLS = dbUser
    /\ rec # currentUserLS
    /\ currentUserLS' = rec
    /\ UNCHANGED <<sideVars, hostname, port, deviceType, scopedServers, selectedProxyServer,
                   poolItem, poolTimestampItem, now, argVars, pc, currentUser, availableTokens,
                   availableServers, loopVars, dbVars, endVars, seenVars>>

\* dispatches racing with other writers of the cache
RaceNext == Next \/ \E rec \in ConcurrentRecords : CacheChange(rec)

RaceSpec == Init /\ [][RaceNext]_vars

\* the step that writes the fetched personal token back to the cache
WritesBack == pc = "db_userq" /\ dbAnswer' = "token"

\* C22: the write-back of a fetched personal token changes only the
\* personalAuthToken field of the record that is in the cache when it writes:
\* a record changed, removed or replaced meanwhile is not reverted.
C22_WriteBackKeepsConcurrentChange ==
    [][WritesBack =>
          /\ currentUserLS'.present = currentUserLS.present
          /\ currentUserLS'.id = currentUserLS.id
          /\ currentUserLS'.username = currentUserLS.username]_vars


(***************************************************************************)
(* Pinning: the caller passes the winning pair to a follow-up request      *)
(***************************************************************************)

\* the token pools a follow-up request can find in the cache
FollowUpPools ==
    { NoPool, [present |-> TRUE, tokens |-> SubSeq(PoolBase, 1, 2), timestamp |-> StartTime] }

\* After a success the caller calls executeProxiedRequest again (lines 168-176)
\* with specificToken = successfulToken and overrideServerUrl =
\* successfulServerUrl (the values returned at line 361), under any logContext
\* and with the caches in any state; the runtime environment is the same.
FollowUp(ctx, user, sel, pool) ==
    /\ pc = "success"
    /\ ~pinned.set
    /\ pinned' = [set |-> TRUE, token |-> result.successfulToken,
                  server |-> result.successfulServerUrl]
    /\ specificToken' = result.successfulToken
    /\ overrideServerUrl' = result.successfulServerUrl
    /\ logContext' = ctx
    /\ currentUserLS' = user
    /\ selectedProxyServer' = sel
    /\ poolItem' = pool
    /\ poolTimestampItem' = IF pool.present
                            THEN [present |-> TRUE, value |-> pool.timestamp]
                            ELSE NoStamp
    /\ pc' = "start"
    /\ currentUser' = NoUserRecord
    /\ availableTokens' = <<>>
    /\ availableServers' = <<>>
    /\ maxRetries' = 0
    /\ lastError' = NoError
    /\ triedCombinations' = 0
    /\ slotRequested' = FALSE
    /\ shuffledServers' = <<>>
    /\ shuffledTokens' = <<>>
    /\ serverIdx' = 0
    /\ tokenIdx' = 0
    /\ retryCount' = 0
    /\ dbUser' = NoUserRecord
    /\ freshToken' = None
    /\ dbAnswer' = None
    /\ result' = NoResult
    /\ thrown' = NoError
    /\ httpLog' = <<>>
    /\ slotCalls' = <<>>
    /\ logEntries' = <<>>
    /\ lastOutcome' = NoOutcome
    /\ serversResolved' = FALSE
    /\ consulted' = {}
    /\ UNCHANGED <<envVars, serviceType, poolOp, flowVars, extractVars>>

PinNext ==
    \/ Next
    \/ \E ctx \in LogContexts, user \in UserRecords, sel \in SelectedServers,
          pool \in FollowUpPools : FollowUp(ctx, user, sel, pool)

PinSpec == Init /\ [][PinNext]_vars

\* C23: a follow-up request pinned to the winning pair of a successful
\* dispatch makes exactly one HTTP attempt, to that server with that token,
\* whatever its logContext and the state of the caches: it never makes a
\* second attempt, and it ends only after its one attempt.
C23_PinnedRoundTrip ==
    pinned.set =>
        /\ Attempts <= 1
        /\ \A i \in 1..Attempts :
              /\ httpLog[i].server = pinned.server
              /\ httpLog[i].token = pinned.token
        /\ Terminal => Attempts = 1

\* C23 witness: a pinned status check, with another server selected and a
\* token pool and a personal token cached, ended after its one attempt failed
C23_Witness ==
    /\ pinned.set
    /\ pc = "exhausted"
    /\ Attempts = 1
    /\ IsStatusCheck(logContext)
    /\ selectedProxyServer # None /\ selectedProxyServer # pinned.server
    /\ poolItem.present
    /\ currentUserLS.personalAuthToken # "" /\ currentUserLS.personalAuthToken # pinned.token


(***************************************************************************)
(* The candidate servers: the selected server and the device filter        *)
(***************************************************************************)

\* the server list was built by the branch of lines 244-263 and kept
ListFromRegistry == serversResolved /\ overrideServerUrl = None /\ ~LocalRuntime

\* the servers of a list, as a set
ServerSet(list) == { list[i] : i \in 1..Len(list) }

\* the list the device filter leaves (lines 244-257), before the selected
\* server is looked at
ListAfterDeviceFilter ==
    LET all == IF currentUser.present THEN scopedServers ELSE PROXY_SERVER_URLS
        deviceServers == getServersForDevice(deviceType, all)
    IN IF deviceServers # <<>> THEN deviceServers ELSE all

\* C24: a selected server that is in the filtered list stands at index 0, the
\* other servers keep their relative order and the set of candidates is
\* unchanged; a selected server that is not in the filtered list leaves the
\* list unchanged and is never contacted.
C24_SelectedServerPromoted ==
    ListFromRegistry =>
        LET sel == selectedProxyServer
            base == ListAfterDeviceFilter
            IsOther(x) == x # sel
        IN IF sel # None /\ sel \in ServerSet(base)
           THEN /\ availableServers[1] = sel
                /\ SelectSeq(availableServers, IsOther) = SelectSeq(base, IsOther)
                /\ ServerSet(availableServers) = ServerSet(base)
           ELSE /\ availableServers = base
                /\ \A i \in 1..Attempts : httpLog[i].server # sel

\* C24 witness: the selected server was second of three filtered servers, was
\* moved to the front, and the dispatch has made an attempt
C24_Witness ==
    /\ ListFromRegistry
    /\ Len(ListAfterDeviceFilter) >= 3
    /\ ListAfterDeviceFilter[2] = selectedProxyServer
    /\ availableServers[1] = selectedProxyServer
    /\ Attempts >= 1


\* the URLs of the servers s1, s2, s3, s4 and s6
IosServerUrls ==
    { "https://s1.monoklix.com", "https://s2.monoklix.com", "https://s3.monoklix.com",
      "https://s4.monoklix.com", "https://s6.monoklix.com" }

\* the servers of a list that are meant for a device
DeviceSubset(device, list) ==
    { x \in ServerSet(list) : (device = "iOS") <=> (x \in IosServerUrls) }

\* the list of the signed-in user, or the registry
UnfilteredList == IF currentUser.present THEN scopedServers ELSE PROXY_SERVER_URLS

\* C25: without an override and outside local development the candidate
\* servers are the servers of the scoped list meant for the device (s1, s2, s3,
\* s4, s6 for iOS, the others for any other device) when there is one, and
\* the whole scoped list when there is none; the iOS part and the non-iOS
\* part of a list are disjoint and cover it.
C25_DeviceFilteredCandidates ==
    /\ ListFromRegistry =>
          ServerSet(availableServers) =
              IF DeviceSubset(deviceType, UnfilteredList) # {}
              THEN DeviceSubset(deviceType, UnfilteredList)
              ELSE ServerSet(UnfilteredList)
    /\ \A list \in {scopedServers, PROXY_SERVER_URLS} :
          LET ios == ServerSet(getServersForDevice("iOS", list))
              others == ServerSet(getServersForDevice("Android", list))
          IN /\ ios \cap others = {}
             /\ ios \cup others = ServerSet(list)
             /\ ios = DeviceSubset("iOS", list)
             /\ others = DeviceSubset("Android", list)

\* C25 witness: on an Android device a scoped list with servers of both kinds
\* was filtered, and the dispatch made an attempt
C25_Witness ==
    /\ ListFromRegistry
    /\ deviceType = "Android"
    /\ currentUser.present
    /\ DeviceSubset("iOS", scopedServers) # {}
    /\ ServerSet(availableServers) = DeviceSubset("Android", scopedServers)
    /\ Attempts >= 1


(***************************************************************************)
(* The services outside a dispatch: frames, time, the dispatcher at rest   *)
(***************************************************************************)

\* how many times the clock advances
MaxTicks == 3

\* what the flow session operations leave alone
flowFrame == <<dispatchVars, now, poolItem, poolTimestampItem, poolOp, extractVars>>

\* what the token pool operations leave alone
poolFrame == <<dispatchVars, now, flowVars, extractVars>>

\* what extractFlowToken leaves alone
extractFrame == <<dispatchVars, now, poolItem, poolTimestampItem, poolOp, flowVars>>

\* no dispatch is running and none has run: a signed-out visitor of the
\* public site
DispatcherAtRest ==
    /\ hostname = PublicHost
    /\ port = ""
    /\ deviceType = "Android"
    /\ scopedServers = <<>>
    /\ currentUserLS = NoUserRecord
    /\ selectedProxyServer = None
    /\ logContext = <<"IMAGEN RECIPE">>
    /\ serviceType = "imagen"
    /\ specificToken = None
    /\ overrideServerUrl = None
    /\ pc = "start"
    /\ currentUser = NoUserRecord
    /\ availableTokens = <<>>
    /\ availableServers = <<>>
    /\ maxRetries = 0
    /\ lastError = NoError
    /\ triedCombinations = 0
    /\ slotRequested = FALSE
    /\ shuffledServers = <<>>
    /\ shuffledTokens = <<>>
    /\ serverIdx = 0
    /\ tokenIdx = 0
    /\ retryCount = 0
    /\ dbUser = NoUserRecord
    /\ freshToken = None
    /\ dbAnswer = None
    /\ result = NoResult
    /\ thrown = NoError
    /\ httpLog = <<>>
    /\ slotCalls = <<>>
    /\ logEntries = <<>>
    /\ lastOutcome = NoOutcome
    /\ serversResolved = FALSE
    /\ consulted = {}
    /\ pinned = NoPin

\* Date.now() advances by half the lifetime of a token pool
Tick ==
    /\ now < StartTime + MaxTicks * (TOKEN_POOL_EXPIRY_HOURS \div 2)
    /\ now' = now + (TOKEN_POOL_EXPIRY_HOURS \div 2)
    /\ UNCHANGED <<dispatchVars, poolItem, poolTimestampItem, poolOp, flowVars, extractVars>>

(***************************************************************************)
(* flowService: the Flow session flags, and handleLoginSuccess             *)
(***************************************************************************)

\* checkFlowLoginStatus lines 12-25: the answer for the stored items
checkFlowLoginStatus(status, sessionData) ==
    IF status = "true" THEN sessionData # None ELSE FALSE

\* saveFlowSession lines 32-49
SaveFlowSession ==
    /\ flowStatusItem' = "true"
    /\ flowTimestampItem' = [present |-> TRUE, value |-> now]
    /\ savedSinceClear' = TRUE
    /\ flowOp' = [op |-> "save", returned |-> FALSE]
    /\ UNCHANGED <<flowSessionItem, loginPc, isLoggedIn>>
    /\ UNCHANGED flowFrame

\* clearFlowSession lines 54-65
ClearFlowSession ==
    /\ flowStatusItem' = None
    /\ flowSessionItem' = None
    /\ flowTimestampItem' = NoStamp
    /\ savedSinceClear' = FALSE
    /\ flowOp' = [op |-> "clear", returned |-> FALSE]
    /\ UNCHANGED <<loginPc, isLoggedIn>>
    /\ UNCHANGED flowFrame

\* a caller other than handleLoginSuccess checks the status
CheckFlowLoginStatus ==
    /\ flowOp' = [op |-> "check",
                  returned |-> checkFlowLoginStatus(flowStatusItem, flowSessionItem)]
    /\ UNCHANGED <<flowStatusItem, flowSessionItem, flowTimestampItem, savedSinceClear,
                   loginPc, isLoggedIn>>
    /\ UNCHANGED flowFrame

\* handleLoginSuccess line 857: await saveFlowSession()
LoginSave ==
    /\ loginPc \in {"idle", "done"}
    /\ loginPc' = "saved"
    /\ flowStatusItem' = "true"
    /\ flowTimestampItem' = [present |-> TRUE, value |-> now]
    /\ savedSinceClear' = TRUE
    /\ flowOp' = [op |-> "save", returned |-> FALSE]
    /\ UNCHANGED <<flowSessionItem, isLoggedIn>>
    /\ UNCHANGED flowFrame

\* handleLoginSuccess line 860: the 500 ms wait is over
LoginWait ==
    /\ loginPc = "saved"
    /\ loginPc' = "waited"
    /\ UNCHANGED <<flowStatusItem, flowSessionItem, flowTimestampItem, flowOp,
                   savedSinceClear, isLoggedIn>>
    /\ UNCHANGED flowFrame

\* handleLoginSuccess lines 863-864: the status check and setIsLoggedIn
LoginCheck ==
    /\ loginPc = "waited"
    /\ loginPc' = "done"
    /\ LET status == checkFlowLoginStatus(flowStatusItem, flowSessionItem)
       IN /\ isLoggedIn' = status
          /\ flowOp' = [op |-> "check", returned |-> status]
    /\ UNCHANGED <<flowStatusItem, flowSessionItem, flowTimestampItem, savedSinceClear>>
    /\ UNCHANGED flowFrame

\* The browser starts with no login flag; session data may have been left by
\* a writer outside this code (no line of src/ writes 'flow_session_data').
FlowInit ==
    /\ DispatcherAtRest
    /\ now = StartTime
    /\ poolItem = NoPool
    /\ poolTimestampItem = NoStamp
    /\ poolOp = NoPoolOp
    /\ flowStatusItem = None
    /\ flowSessionItem \in {None, "data"}
    /\ flowTimestampItem = NoStamp
    /\ flowOp = NoFlowOp
    /\ savedSinceClear = FALSE
    /\ loginPc = "idle"
    /\ isLoggedIn = FALSE
    /\ ExtractIdle

FlowNext ==
    \/ SaveFlowSession
    \/ ClearFlowSession
    \/ CheckFlowLoginStatus
    \/ LoginSave
    \/ LoginWait
    \/ LoginCheck
    \/ Tick

FlowSpec == FlowInit /\ [][FlowNext]_vars

\* C26: once saveFlowSession has completed, every checkFlowLoginStatus
\* answers true until clearFlowSession is called, and the status check of
\* handleLoginSuccess, made after it saved the session, reports the user as
\* logged in.
C26_LoggedInAfterSave ==
    /\ []((flowOp.op = "check" /\ savedSinceClear) => flowOp.returned)
    /\ [][(loginPc = "waited" /\ loginPc' = "done" /\ savedSinceClear) => isLoggedIn']_vars


(***************************************************************************)
(* tokenPoolService: the token pool in session storage                     *)
(***************************************************************************)

\* how many rows the token_new_active table answers at most
MaxRows == 2

\* a token column that holds a number, not a string
NumberToken == "<number>"

\* the token column of a row: two tokens, an empty and a blank string, a
\* string that is no access token, null, a number
RawTokens == {"ya29.A", "ya29.B", "", " ", "xx29.C", None, NumberToken}

\* typeof token === 'string'
TypeofString(t) == t \notin {None, NumberToken}

\* token.startsWith('ya29.')
StartsWithYa29(t) == t \in {"ya29.A", "ya29.B"}

\* lines 43-47: the filter of fetchTokenPool
IsPoolToken(t) == Truthy(t) /\ TypeofString(t) /\ ~IsBlank(t) /\ StartsWithYa29(t)

\* line 50: Array.from(new Set(tokens)), every token at its first position
RECURSIVE UniqueTokens(_, _)
UniqueTokens(tokens, seen) ==
    IF tokens = <<>> THEN <<>>
    ELSE IF Head(tokens) \in seen THEN UniqueTokens(Tail(tokens), seen)
    ELSE <<Head(tokens)>> \o UniqueTokens(Tail(tokens), seen \cup {Head(tokens)})

\* what the query of lines 26-30 answers: an exception, an error, no data,
\* or rows
FetchAnswers ==
    { [kind |-> k, rows |-> <<>>] : k \in {"throw", "error", "nodata"} } \cup
    { [kind |-> "rows", rows |-> r] :
        r \in UNION { [1..n -> RawTokens] : n \in 1..MaxRows } }

\* whether a sessionStorage.setItem of lines 59-60 throws (quota), and which
StorageFailures == {"none", "first", "second"}

\* fetchTokenPool lines 19-74
FetchTokenPool(answer, storageFailure) ==
    LET uniqueTokens == UniqueTokens(SelectSeq(answer.rows, IsPoolToken), {})
        pool == [present |-> TRUE, tokens |-> uniqueTokens, timestamp |-> now]
    IN CASE answer.kind \in {"throw", "error", "nodata"} ->
              /\ storageFailure = "none"
              /\ poolOp' = [op |-> "fetchTokenPool", outcome |-> answer.kind,
                            returned |-> <<>>, cleared |-> FALSE]
              /\ UNCHANGED <<poolItem, poolTimestampItem>>
         [] answer.kind = "rows" /\ uniqueTokens = <<>> ->
              /\ storageFailure = "none"
              /\ poolOp' = [op |-> "fetchTokenPool", outcome |-> "novalid",
                            returned |-> <<>>, cleared |-> FALSE]
              /\ UNCHANGED <<poolItem, poolTimestampItem>>
         [] answer.kind = "rows" /\ uniqueTokens # <<>> ->
              /\ poolItem' = IF storageFailure = "first" THEN poolItem ELSE pool
              /\ poolTimestampItem' = IF storageFailure = "none"
                                      THEN [present |-> TRUE, value |-> now]
                                      ELSE poolTimestampItem
              /\ poolOp' = [op |-> "fetchTokenPool",
                            outcome |-> IF storageFailure = "none" THEN "stored"
                                        ELSE "storage_error",
                            returned |-> uniqueTokens, cleared |-> FALSE]

\* fetchTokenPool called by the application
FetchTokenPoolCall(answer, storageFailure) ==
    /\ FetchTokenPool(answer, storageFailure)
    /\ UNCHANGED poolFrame

\* getAllTokens lines 117-138, called outside a dispatch
GetAllTokens ==
    /\ poolOp' = [op |-> "getAllTokens", outcome |-> "none",
                  returned |-> getAllTokens(poolItem, now),
                  cleared |-> poolItem.present /\ PoolExpired(poolItem, now)]
    /\ poolItem' = PoolItemAfterRead(poolItem, now)
    /\ poolTimestampItem' = PoolTimestampAfterRead(poolItem, poolTimestampItem, now)
    /\ UNCHANGED poolFrame

\* getRandomToken lines 79-112: index is Math.floor(Math.random() * length)
GetRandomToken(index) ==
    /\ index < Len(getAllTokens(poolItem, now)) \/ index = 0
    /\ poolOp' = [op |-> "getRandomToken", outcome |-> "none",
                  returned |-> IF getAllTokens(poolItem, now) = <<>> THEN <<>>
                               ELSE <<getAllTokens(poolItem, now)[index + 1]>>,
                  cleared |-> poolItem.present /\ PoolExpired(poolItem, now)]
    /\ poolItem' = PoolItemAfterRead(poolItem, now)
    /\ poolTimestampItem' = PoolTimestampAfterRead(poolItem, poolTimestampItem, now)
    /\ UNCHANGED poolFrame

\* clearTokenPool lines 143-147
ClearTokenPool ==
    /\ poolItem' = NoPool
    /\ poolTimestampItem' = NoStamp
    /\ poolOp' = [op |-> "clearTokenPool", outcome |-> "none", returned |-> <<>>,
                  cleared |-> TRUE]
    /\ UNCHANGED poolFrame

\* a new browser session: session storage is empty
PoolInit ==
    /\ DispatcherAtRest
    /\ now = StartTime
    /\ poolItem = NoPool
    /\ poolTimestampItem = NoStamp
    /\ poolOp = NoPoolOp
    /\ FlowIdle
    /\ ExtractIdle

PoolNext ==
    \/ \E answer \in FetchAnswers, storageFailure \in StorageFailures :
          FetchTokenPoolCall(answer, storageFailure)
    \/ GetAllTokens
    \/ \E index \in 0..(MaxRows - 1) : GetRandomToken(index)
    \/ ClearTokenPool
    \/ Tick

PoolSpec == PoolInit /\ [][PoolNext]_vars

\* the step is a read of the pool (getAllTokens or getRandomToken)
PoolReadStep ==
    /\ poolOp'.op \in {"getAllTokens", "getRandomToken"}
    /\ <<poolOp, poolItem, poolTimestampItem>>' # <<poolOp, poolItem, poolTimestampItem>>

\* the stored pool is more than 24 hours old
StoredPoolOld == poolItem.present /\ now - poolItem.timestamp > 24

\* C27: getAllTokens and getRandomToken never return a token of a pool whose
\* stored timestamp is more than 24 hours old; the read of such a pool returns
\* nothing and removes the pool key and the timestamp key; any other read
\* returns tokens of the stored pool only; and a removed pool comes back only
\* through fetchTokenPool.
C27_PoolExpiresAfterADay ==
    /\ [][PoolReadStep =>
            IF StoredPoolOld
            THEN /\ poolOp'.returned = <<>>
                 /\ ~poolItem'.present
                 /\ ~poolTimestampItem'.present
            ELSE /\ \A i \in 1..Len(poolOp'.returned) :
                       /\ poolItem.present
                       /\ \E j \in 1..Len(poolItem.tokens) :
                             poolOp'.returned[i] = poolItem.tokens[j]
                 /\ poolOp'.op = "getAllTokens" /\ poolItem.present =>
                       poolOp'.returned = poolItem.tokens
                 /\ poolOp'.op = "getRandomToken" /\ poolItem.present =>
                       Len(poolOp'.returned) = 1
                 /\ UNCHANGED <<poolItem, poolTimestampItem>>]_vars
    /\ [][(~poolItem.present /\ poolItem'.present) => poolOp'.op = "fetchTokenPool"]_vars

\* C27 witness: a pool of two tokens was read 36 hours after it was stored;
\* the read returned nothing and removed both keys
C27_Witness ==
    /\ poolOp.op \in {"getAllTokens", "getRandomToken"}
    /\ poolOp.cleared
    /\ poolOp.returned = <<>>
    /\ ~poolItem.present /\ ~poolTimestampItem.present
    /\ now = StartTime + 36


\* hasValidTokenPool lines 152-171
hasValidTokenPool(pool, t) ==
    IF ~pool.present THEN FALSE
    ELSE IF PoolExpired(pool, t) THEN FALSE
    ELSE Len(pool.tokens) > 0

\* getTokenPoolSize lines 176-188
getTokenPoolSize(pool) ==
    IF ~pool.present THEN 0 ELSE Len(pool.tokens)

\* C28: in every reachable state getTokenPoolSize() is the number of tokens
\* getAllTokens() would return (so 0 for an expired pool), and
\* hasValidTokenPool() is true exactly when that number is greater than 0.
C28_PoolViewsAgree ==
    /\ getTokenPoolSize(poolItem) = Len(getAllTokens(poolItem, now))
    /\ hasValidTokenPool(poolItem, now) <=> Len(getAllTokens(poolItem, now)) > 0

\* the tokens of a list, as a set
TokenSet(list) == { list[i] : i \in 1..Len(list) }

\* a fetchTokenPool call that failed, threw or found no valid token
FetchFailed ==
    /\ poolOp'.op = "fetchTokenPool"
    /\ poolOp'.outcome \in {"throw", "error", "nodata", "novalid"}
    /\ poolOp' # poolOp

\* C30: the pool key and the timestamp key are both present or both absent;
\* a stored token list is non-empty, has no duplicate and holds only
\* non-blank tokens that start with 'ya29.'; and a fetchTokenPool call that
\* fails, throws or finds no valid token returns an empty list and leaves the
\* stored pool and timestamp unchanged.
C30_PoolStorageInvariant ==
    /\ [](poolItem.present <=> poolTimestampItem.present)
    /\ [](poolItem.present =>
            /\ poolItem.tokens # <<>>
            /\ Cardinality(TokenSet(poolItem.tokens)) = Len(poolItem.tokens)
            /\ TokenSet(poolItem.tokens) \subseteq {"ya29.A", "ya29.B"})
    /\ [][FetchFailed =>
            /\ poolOp'.returned = <<>>
            /\ UNCHANGED <<poolItem, poolTimestampItem>>]_vars


(***************************************************************************)
(* flowService: extractFlowToken and extractTokenViaIframe                 *)
(***************************************************************************)

\* an access token of the session API
FlowToken == "ya29.F"

\* how the direct fetch of lines 103-192 settles: it rejects (CORS), answers
\* a status that is not ok, a body that is no JSON, JSON null, JSON without
\* access_token, an access_token with another prefix, or an access token
FetchOutcomes == {"reject", "not_ok", "not_json", "null_json", "no_token", "bad_prefix", "token"}

\* the token field of a FLOW_TOKEN message: a token, a string with another
\* prefix, an empty string, null, a value that is no string
MessageTokens == {FlowToken, "xx29.C", "", None, NumberToken}

\* how the 2 s timer of lines 238-322 finds the iframe: readable, or
\* cross-origin (contentDocument is null, or reading the document throws)
IframeAccess == {"readable", "cross_origin_null", "cross_origin_throw"}

\* resolve(value): the first call settles the promise, a later call has no effect
Resolved(p, value) ==
    [state |-> "resolved",
     value |-> IF p.state = "pending" THEN value ELSE p.value,
     resolveCalls |-> p.resolveCalls + 1]

\* lines 301-307, 314-319, 327-333, 342-348: the handlers that give up
GiveUp(c) ==
    IF ~resolved[c]
    THEN /\ resolved' = [resolved EXCEPT ![c] = TRUE]
         /\ listening' = [listening EXCEPT ![c] = FALSE]
         /\ iframeInBody' = [iframeInBody EXCEPT ![c] = FALSE]
         /\ promise' = [promise EXCEPT ![c] = Resolved(@, None)]
    ELSE UNCHANGED <<resolved, listening, iframeInBody, promise>>

\* extractFlowToken lines 97-110: the promise is created, the fetch starts
ExtractFlowToken(c) ==
    /\ promise[c].state = "none"
    /\ promise' = [promise EXCEPT ![c] = [state |-> "pending", value |-> None,
                                          resolveCalls |-> 0]]
    /\ fetchPending' = [fetchPending EXCEPT ![c] = TRUE]
    /\ UNCHANGED <<resolved, listening, iframeInBody, iframeLoad, timeoutTimer, handlerError>>
    /\ UNCHANGED extractFrame

\* extractTokenViaIframe lines 200-233 and 337-350: listener, iframe, timeout
ExtractTokenViaIframe(c) ==
    /\ resolved' = [resolved EXCEPT ![c] = FALSE]
    /\ listening' = [listening EXCEPT ![c] = TRUE]
    /\ iframeInBody' = [iframeInBody EXCEPT ![c] = TRUE]
    /\ iframeLoad' = [iframeLoad EXCEPT ![c] = "loading"]
    /\ timeoutTimer' = [timeoutTimer EXCEPT ![c] = "pending"]
    /\ UNCHANGED promise

\* lines 111-192: the direct fetch settles
FetchSettles(c, outcome) ==
    /\ fetchPending[c]
    /\ fetchPending' = [fetchPending EXCEPT ![c] = FALSE]
    /\ IF outcome = "token"
       THEN /\ promise' = [promise EXCEPT ![c] = Resolved(@, FlowToken)]
            /\ UNCHANGED <<resolved, listening, iframeInBody, iframeLoad, timeoutTimer>>
       ELSE ExtractTokenViaIframe(c)
    /\ UNCHANGED handlerError
    /\ UNCHANGED extractFrame

\* messageHandler lines 211-231, for a window message of type FLOW_TOKEN,
\* which every registered handler receives: the flag is set and the listener
\* and the iframe are removed before the token is looked at; token.startsWith
\* throws for a truthy token that is no string
FlowTokenMessage(token) ==
    /\ \E c \in Calls : listening[c]
    /\ resolved' = [c \in Calls |-> listening[c] \/ resolved[c]]
    /\ listening' = [c \in Calls |-> FALSE]
    /\ iframeInBody' = [c \in Calls |-> iframeInBody[c] /\ ~listening[c]]
    /\ IF Truthy(token) /\ ~TypeofString(token)
       THEN /\ handlerError' = [c \in Calls |-> listening[c] \/ handlerError[c]]
            /\ UNCHANGED promise
       ELSE /\ promise' = [c \in Calls |->
                             IF listening[c]
                             THEN Resolved(promise[c],
                                           IF Truthy(token) /\ token = FlowToken
                                           THEN token ELSE None)
                             ELSE promise[c]]
            /\ UNCHANGED handlerError
    /\ UNCHANGED <<fetchPending, iframeLoad, timeoutTimer>>
    /\ UNCHANGED extractFrame

\* iframe.onload lines 235-238
IframeOnload(c) ==
    /\ iframeLoad[c] = "loading"
    /\ iframeLoad' = [iframeLoad EXCEPT ![c] = IF resolved[c] THEN "ignored" ELSE "timer"]
    /\ UNCHANGED <<fetchPending, promise, resolved, listening, iframeInBody, timeoutTimer,
                   handlerError>>
    /\ UNCHANGED extractFrame

\* lines 238-322: the 2 s timer; a readable iframe gets the script that will
\* post a FLOW_TOKEN message, an iframe that cannot be read gives up
IframeTimer(c, access) ==
    /\ iframeLoad[c] = "timer"
    /\ iframeLoad' = [iframeLoad EXCEPT ![c] = "timer_fired"]
    /\ IF access = "readable" /\ iframeInBody[c]
       THEN UNCHANGED <<resolved, listening, iframeInBody, promise>>
       ELSE GiveUp(c)
    /\ UNCHANGED <<fetchPending, timeoutTimer, handlerError>>
    /\ UNCHANGED extractFrame

\* iframe.onerror lines 325-335
IframeOnerror(c) ==
    /\ iframeLoad[c] = "loading"
    /\ iframeLoad' = [iframeLoad EXCEPT ![c] = "error"]
    /\ GiveUp(c)
    /\ UNCHANGED <<fetchPending, timeoutTimer, handlerError>>
    /\ UNCHANGED extractFrame

\* lines 340-350: the 15 s timeout
ExtractTimeout(c) ==
    /\ timeoutTimer[c] = "pending"
    /\ timeoutTimer' = [timeoutTimer EXCEPT ![c] = "fired"]
    /\ GiveUp(c)
    /\ UNCHANGED <<fetchPending, iframeLoad, handlerError>>
    /\ UNCHANGED extractFrame

ExtractInit ==
    /\ DispatcherAtRest
    /\ now = StartTime
    /\ poolItem = NoPool
    /\ poolTimestampItem = NoStamp
    /\ poolOp = NoPoolOp
    /\ FlowIdle
    /\ ExtractIdle

ExtractNext ==
    \/ \E c \in Calls : ExtractFlowToken(c)
    \/ \E c \in Calls, outcome \in FetchOutcomes : FetchSettles(c, outcome)
    \/ \E token \in MessageTokens : FlowTokenMessage(token)
    \/ \E c \in Calls : IframeOnload(c)
    \/ \E c \in Calls, access \in IframeAccess : IframeTimer(c, access)
    \/ \E c \in Calls : IframeOnerror(c)
    \/ \E c \in Calls : ExtractTimeout(c)

ExtractSpec == ExtractInit /\ [][ExtractNext]_vars

\* C29: the promise of every extractFlowToken call is resolved exactly once,
\* with a token or with null: no second resolve happens, the listener and the
\* hidden iframe are gone once it is resolved, and it is resolved at the
\* latest when the 15-second timeout has fired.
C29_PromiseSettledOnce ==
    \A c \in Calls :
        /\ promise[c].resolveCalls <= 1
        /\ promise[c].state = "resolved" =>
              /\ promise[c].value \in {FlowToken, None}
              /\ ~listening[c]
              /\ ~iframeInBody[c]
        /\ timeoutTimer[c] = "fired" => promise[c].state = "resolved"

=============================================================================
